---- MODULE Spec2Model ----
(***************************************************************************)
(* Model of delve-helper (glthr/go-debug-skill): the process launcher      *)
(* (cmdStart / cmdStop), the session handle store (.dlv/addr, .dlv/pid),   *)
(* the per-invocation RPC session client and command dispatcher (Run), and *)
(* the report fragment store (report-init and the appenders).              *)
(*                                                                         *)
(* Text is modelled as a sequence of tokens: a token is a run of           *)
(* characters that the model never needs to split further.  " " and "\n"   *)
(* are the whitespace tokens.  A path is a record [abs, segs].             *)
(***************************************************************************)
EXTENDS Integers, Sequences, FiniteSets, TLC

VARIABLES
    \* ---- polling loop of cmdStart (SpecPoll) ----
    now,        \* wall clock, in milliseconds since cmdStart computed the deadline
    script,     \* what the spawned engine still has to write to its stdout
    out,        \* content of the temp file that is the engine's stdout
    pc,         \* position of cmdStart: "loop", "sleep", "done"
    line,       \* the line the last poll scanned (NoLine when Scan() was false)
    addr,       \* cmdStart's local variable addr
    outcome,    \* result of the polling part of cmdStart
    \* ---- launcher and handle store (SpecLauncher) ----
    files,      \* the file system: absolute path (sequence of names) -> content
    engines,    \* the engine processes spawned so far: pid -> process record
    last,       \* what the last invocation was given and what it returned
    \* ---- RPC session client and command dispatcher (SpecSession) ----
    eng,        \* the engine's debugging state: tracee, breakpoints, next id
    conns,      \* number of connections delve-helper processes hold open
    inv,        \* the last session command: its RPCs, replies, output, result
    \* ---- report fragment store (SpecReport) ----
    rep,        \* the last report command and the trace rows appended so far
    \* ---- document assembler passes (SpecRepair, SpecTex) ----
    md,         \* a markdown body and what fixMarkdownTables makes of it
    tex,        \* a LaTeX body and what the post-processing makes of it
    \* ---- the example program under the debugger (SpecWindow) ----
    tr,         \* the tracee running Window: position, locals, breakpoint hits
    \* ---- report appenders run at the same time (SpecAppend) ----
    ap          \* per invocation: its position, its fragment, the text it appends

pollVars == <<now, script, out, pc, line, addr, outcome>>

launchVars == <<files, engines, last>>

sessVars == <<eng, conns, inv>>

reportVars == <<rep>>

asmVars == <<md, tex>>

traceeVars == <<tr>>

appendVars == <<ap>>

vars == <<pollVars, launchVars, sessVars, reportVars, asmVars, traceeVars, appendVars>>

----------------------------------------------------------------------------
(* Text helpers: strings.TrimSpace, strings.HasPrefix, strings.Contains,    *)
(* strconv.Itoa, strconv.Atoi, bufio.Scanner with ScanLines.                *)

NL == "\n"
SP == " "

IsSpace(t) == t \in {NL, SP}

RECURSIVE TrimLeft(_)
TrimLeft(s) ==
    IF s = <<>> THEN <<>>
    ELSE IF IsSpace(Head(s)) THEN TrimLeft(Tail(s)) ELSE s

RECURSIVE TrimRight(_)
TrimRight(s) ==
    IF s = <<>> THEN <<>>
    ELSE IF IsSpace(s[Len(s)]) THEN TrimRight(SubSeq(s, 1, Len(s) - 1)) ELSE s

TrimSpace(s) == TrimRight(TrimLeft(s))

HasPrefix(s, p) == Len(s) >= Len(p) /\ SubSeq(s, 1, Len(p)) = p

Contains(s, sub) ==
    \E i \in 1..(Len(s) + 1) :
        i + Len(sub) - 1 <= Len(s) /\ SubSeq(s, i, i + Len(sub) - 1) = sub

DigitChars == <<"0", "1", "2", "3", "4", "5", "6", "7", "8", "9">>

RECURSIVE Itoa(_)
Itoa(n) ==
    IF n < 10 THEN <<DigitChars[n + 1]>>
    ELSE Itoa(n \div 10) \o <<DigitChars[(n % 10) + 1]>>

DigitVal(c) == CHOOSE d \in 0..9 : DigitChars[d + 1] = c

IsDigit(c) == \E d \in 0..9 : DigitChars[d + 1] = c

\* strconv.Atoi: [ok, val]; fails on the empty string and on any non-digit.
RECURSIVE AtoiAcc(_, _)
AtoiAcc(s, acc) ==
    IF s = <<>> THEN [ok |-> TRUE, val |-> acc]
    ELSE IF IsDigit(Head(s)) THEN AtoiAcc(Tail(s), acc * 10 + DigitVal(Head(s)))
    ELSE [ok |-> FALSE, val |-> 0]

Atoi(s) == IF s = <<>> THEN [ok |-> FALSE, val |-> 0] ELSE AtoiAcc(s, 0)

\* Index of the first "\n" token of s, 0 when there is none.
RECURSIVE IndexNL(_, _)
IndexNL(s, i) ==
    IF i > Len(s) THEN 0
    ELSE IF s[i] = NL THEN i ELSE IndexNL(s, i + 1)

NoLine == <<"<no line>">>

\* bufio.Scanner.Scan() + Text() on a file read from offset 0: the text up to
\* the first newline; at EOF a non-empty unterminated rest is a line too;
\* an empty file gives no line (Scan() is false).
ScanFirstLine(content) ==
    IF content = <<>> THEN NoLine
    ELSE IF IndexNL(content, 1) = 0 THEN content
    ELSE SubSeq(content, 1, IndexNL(content, 1) - 1)

----------------------------------------------------------------------------
(* The polling loop of cmdStart.                                            *)

TimeoutMs == 15000
PollMs == 50

\* const prefix = "API server listening at: "
prefix == <<"API server ", "listening at: ">>

\* The engine's possible stdout, as the sequence of tokens it writes.
EngineScripts ==
    { <<"API server ", "listening at: ", "127.0.0.1", ":4040", NL>>,
      <<"API server ", "listening at: ", "127.0.0.1", ":4040", NL, "debug layer", NL>>,
      <<"could not launch process", NL>>,
      <<NL, "API server ", "listening at: ", "127.0.0.1", ":4040", NL>>,
      <<"API server ", "listening at: ", NL>>,
      <<>> }

\* What one iteration of the loop does with the scanned line.
\*   "found":      line has the prefix; addr is the trimmed rest, loop is left
\*   "unexpected": any other non-empty line, cmdStart returns an error
\*   "again":      no line or an empty line, sleep and poll again
HarvestLine(l) ==
    IF l # NoLine /\ HasPrefix(l, prefix)
    THEN [kind |-> "found", addr |-> TrimSpace(SubSeq(l, Len(prefix) + 1, Len(l)))]
    ELSE IF l # NoLine /\ l # <<>>
    THEN [kind |-> "unexpected", addr |-> <<>>]
    ELSE [kind |-> "again", addr |-> <<>>]

\* After the loop: if addr == "" the start fails with "timed out ...".
AfterLoop(a) == IF a = <<>> THEN "timeout" ELSE "ok"

\* The detached engine appends the next k tokens of its output to the file.
EngineWrite ==
    /\ script # <<>>
    /\ \E k \in 1..Len(script) :
        /\ out' = out \o SubSeq(script, 1, k)
        /\ script' = SubSeq(script, k + 1, Len(script))
    /\ UNCHANGED <<now, pc, line, addr, outcome>>
    /\ UNCHANGED <<launchVars, sessVars, reportVars, asmVars, traceeVars, appendVars>>

\* for time.Now().Before(deadline) { Seek; Scan; ... }
PollOnce ==
    /\ pc = "loop"
    /\ now < TimeoutMs
    /\ LET l == ScanFirstLine(out)
           h == HarvestLine(l)
       IN /\ line' = l
          /\ CASE h.kind = "found" ->
                   /\ addr' = h.addr
                   /\ pc' = "done"
                   /\ outcome' = AfterLoop(h.addr)
               [] h.kind = "unexpected" ->
                   /\ addr' = addr
                   /\ pc' = "done"
                   /\ outcome' = "unexpected"
               [] OTHER ->
                   /\ addr' = addr
                   /\ pc' = "sleep"
                   /\ outcome' = outcome
    /\ UNCHANGED <<now, script, out>>
    /\ UNCHANGED <<launchVars, sessVars, reportVars, asmVars, traceeVars, appendVars>>

\* time.Sleep(50 * time.Millisecond)
Sleep ==
    /\ pc = "sleep"
    /\ now' = now + PollMs
    /\ pc' = "loop"
    /\ UNCHANGED <<script, out, line, addr, outcome>>
    /\ UNCHANGED <<launchVars, sessVars, reportVars, asmVars, traceeVars, appendVars>>

\* The loop condition is false: the deadline has passed.
LoopExit ==
    /\ pc = "loop"
    /\ now >= TimeoutMs
    /\ pc' = "done"
    /\ outcome' = AfterLoop(addr)
    /\ UNCHANGED <<now, script, out, line, addr>>
    /\ UNCHANGED <<launchVars, sessVars, reportVars, asmVars, traceeVars, appendVars>>

NextPoll == EngineWrite \/ PollOnce \/ Sleep \/ LoopExit


----------------------------------------------------------------------------
(* Paths and files.  A path is [abs, segs]; "" and "." are EmptyPath.       *)

EmptyPath == [abs |-> FALSE, segs |-> <<>>]

Rel(segs) == [abs |-> FALSE, segs |-> segs]

AbsPath(segs) == [abs |-> TRUE, segs |-> segs]

\* filepath.Join(a, b): empty elements are dropped and the rest is joined with
\* separators, so a leading separator of b does not restart at the root.
Join(a, b) ==
    IF a = EmptyPath THEN b
    ELSE IF b = EmptyPath THEN a
    ELSE [abs |-> a.abs, segs |-> a.segs \o b.segs]

\* What the kernel does with a path given to open/stat/unlink by a process
\* whose working directory is cwd.
Resolve(cwd, p) == IF p.abs THEN p.segs ELSE cwd \o p.segs

\* os.WriteFile: create or truncate, then write data.
WriteFile_Append(fs, path, data) ==
    [q \in DOMAIN fs \cup {path} |->
        IF q = path THEN (IF path \in DOMAIN fs THEN fs[path] ELSE <<>>) \o data
        ELSE fs[q]]

WriteFile(fs, path, data) ==
    [q \in DOMAIN fs \cup {path} |-> IF q = path THEN data ELSE fs[q]]

\* os.Remove of a file; removing a missing file is an (ignored) error.
Remove(fs, path) == [q \in DOMAIN fs \ {path} |-> fs[q]]

----------------------------------------------------------------------------
(* The world of the launcher: two directories, the environment, processes.  *)

MaxStarts == 2

Proj == <<"proj">>

Sub == <<"proj", "sub">>

Cwds == {Proj, Sub}

\* DBG_DIR: unset, relative, absolute.
DbgDirs == {EmptyPath, Rel(<<"dbg">>), AbsPath(<<"var", "dbg">>)}

\* The start target argument: "." or "sub".  From proj, sub is a module of its
\* own (proj/sub/go.mod exists); from proj/sub it is a plain package directory.
Targets == {EmptyPath, Rel(<<"sub">>)}

Modes == {"debug", "test", "exec", "test+exec"}

ManualAddr == <<"localhost", ":2345">>

OverrideAddr == <<"127.0.0.1", ":9999">>

DlvAddrs == {<<>>, OverrideAddr}

\* The pid of the n-th engine and the address it announces.
EnginePid(n) == 40 + n

EngineAddr(pid) == <<"127.0.0.1", ":">> \o Itoa(4000 + pid)

\* What the polling loop can see as the decisive first line of the engine
\* with this pid: the listening line, an error line, the bare prefix (the
\* address not yet written), or nothing until the deadline.
StartObs(pid) ==
    { prefix \o EngineAddr(pid),
      <<"could not launch process">>,
      prefix,
      NoLine }

Idle ==
    [cmd |-> "none", dbg |-> EmptyPath, dlvAddr |-> <<>>, cwd |-> Proj,
     err |-> "ok", addr |-> <<>>, pid |-> 0, didChdir |-> FALSE,
     workDir |-> <<>>, dir |-> <<>>, had |-> "none",
     errPath |-> EmptyPath, read |-> <<>>, dialed |-> FALSE]

\* getDlvDir
getDlvDir(dbg) ==
    IF dbg # EmptyPath THEN Join(dbg, Rel(<<".dlv">>)) ELSE Rel(<<".dlv">>)

getAddrFilePath(dbg) == Join(getDlvDir(dbg), Rel(<<"addr">>))

\* getAddr: [ok, addr, errPath, read]; read lists the files it opened.
getAddr_FileFirst(dbg, dlvAddr, cwd, fs) ==
    LET addrFile == getAddrFilePath(dbg)
        f == Resolve(cwd, addrFile)
    IN  IF f \in DOMAIN fs
        THEN [ok |-> TRUE, addr |-> TrimSpace(fs[f]), errPath |-> EmptyPath, read |-> <<f>>]
        ELSE IF dlvAddr # <<>>
        THEN [ok |-> TRUE, addr |-> dlvAddr, errPath |-> EmptyPath, read |-> <<f>>]
        ELSE [ok |-> FALSE, addr |-> <<>>, errPath |-> addrFile, read |-> <<f>>]

getAddr(dbg, dlvAddr, cwd, fs) ==
    IF dlvAddr # <<>>
    THEN [ok |-> TRUE, addr |-> dlvAddr, errPath |-> EmptyPath, read |-> <<>>]
    ELSE LET addrFile == getAddrFilePath(dbg)
             f == Resolve(cwd, addrFile)
         IN  IF f \notin DOMAIN fs
             THEN [ok |-> FALSE, addr |-> <<>>, errPath |-> addrFile, read |-> <<f>>]
             ELSE [ok |-> TRUE, addr |-> TrimSpace(fs[f]), errPath |-> EmptyPath,
                   read |-> <<f>>]

\* exec.Command(dlvPath, dlvArgs...) with cmd.Stdout = tmpOut: the child
\* inherits the launcher's session unless SysProcAttr says otherwise.
Command ==
    [sid |-> "invoker", stdout |-> "file", alive |-> TRUE, killedBy |-> "none",
     wrote |-> FALSE, hup |-> FALSE]

\* startDetached: Setsid makes the child the leader of a new session.
startDetached_NoSetsid(cmd) == cmd

startDetached(cmd) == [cmd EXCEPT !.sid = "own"]

\* Which of addr and pid the handle directory dir holds.
HandleState(fs, dir) ==
    IF (dir \o <<"addr">>) \in DOMAIN fs
    THEN (IF (dir \o <<"pid">>) \in DOMAIN fs THEN "both" ELSE "addr")
    ELSE (IF (dir \o <<"pid">>) \in DOMAIN fs THEN "pid" ELSE "none")

\* A start that wrote the handle files whatever the loop's result was.
StoreAfter_Always(res, fs, written) == written

\* The handle store after the loop: the addr and pid files are written only
\* past the "timed out" return, that is when the loop harvested an address.
StoreAfter(res, fs, written) == IF res = "ok" THEN written ELSE fs

\* cmdStart, from flag parsing to its return.
cmdStart(dbg, cwd, mode, target, dlvFound, spawnOk, obs) ==
    LET origCWD == cwd
        didChdir == /\ target # EmptyPath
                    /\ mode # "exec"
                    /\ Resolve(cwd, Join(target, Rel(<<"go.mod">>))) \in DOMAIN files
        workDir == IF didChdir THEN Resolve(cwd, target) ELSE cwd
        pid == EnginePid(Cardinality(DOMAIN engines) + 1)
        h == HarvestLine(obs)
        res == IF h.kind = "found" THEN AfterLoop(h.addr)
               ELSE IF h.kind = "unexpected" THEN "unexpected" ELSE "timeout"
        dlvDir == IF didChdir THEN Join(AbsPath(origCWD), getDlvDir(dbg))
                  ELSE getDlvDir(dbg)
        addrFile == Resolve(workDir, Join(dlvDir, Rel(<<"addr">>)))
        pidFile == Resolve(workDir, Join(dlvDir, Rel(<<"pid">>)))
        fs1 == WriteFile(WriteFile(files, addrFile, h.addr \o <<NL>>),
                         pidFile, Itoa(pid) \o <<NL>>)
        callerDlv == Join(AbsPath(origCWD), Rel(<<".dlv">>))
        fs2 == IF didChdir /\ dbg = EmptyPath
               THEN WriteFile(
                        WriteFile(fs1, Resolve(workDir, Join(callerDlv, Rel(<<"addr">>))),
                                  h.addr \o <<NL>>),
                        Resolve(workDir, Join(callerDlv, Rel(<<"pid">>))),
                        Itoa(pid) \o <<NL>>)
               ELSE fs1
        ret(e) == [Idle EXCEPT !.cmd = "start", !.dbg = dbg, !.cwd = cwd, !.err = e,
                               !.didChdir = didChdir]
    IN  /\ UNCHANGED <<pollVars, sessVars, reportVars, asmVars, traceeVars, appendVars>>
        /\ Cardinality(DOMAIN engines) < MaxStarts
        /\ obs \in StartObs(pid)
        /\ IF mode = "test+exec" THEN
               /\ last' = [ret("flags") EXCEPT !.didChdir = FALSE]
               /\ UNCHANGED <<files, engines>>
           ELSE IF ~dlvFound THEN
               /\ last' = ret("nodlv")
               /\ UNCHANGED <<files, engines>>
           ELSE IF ~spawnOk THEN
               /\ last' = ret("spawn")
               /\ UNCHANGED <<files, engines>>
           ELSE
               /\ engines' = engines @@ (pid :> startDetached(Command))
               /\ IF res = "ok" THEN
                      /\ files' = StoreAfter(res, files, fs2)
                      /\ last' = [ret("ok") EXCEPT
                                     !.addr = h.addr, !.pid = pid,
                                     !.workDir = workDir,
                                     !.dir = Resolve(workDir, dlvDir),
                                     !.had = HandleState(files,
                                                 Resolve(workDir, dlvDir))]
                  ELSE
                      /\ files' = StoreAfter(res, files, fs2)
                      /\ last' = [ret(res) EXCEPT !.pid = pid]

\* os.FindProcess(pid) + proc.Signal(SIGTERM)
Kill(es, pid, sig) ==
    IF pid \in DOMAIN es /\ es[pid].alive
    THEN [es EXCEPT ![pid].alive = FALSE, ![pid].killedBy = sig]
    ELSE es

\* cmdStop
cmdStop(dbg, cwd) ==
    LET dlvDir == getDlvDir(dbg)
        pidFile == Resolve(cwd, Join(dlvDir, Rel(<<"pid">>)))
        addrFile == Resolve(cwd, Join(dlvDir, Rel(<<"addr">>)))
        ret(e) == [Idle EXCEPT !.cmd = "stop", !.dbg = dbg, !.cwd = cwd, !.err = e,
                               !.dir = Resolve(cwd, dlvDir),
                               !.had = HandleState(files, Resolve(cwd, dlvDir))]
    IN  /\ UNCHANGED <<pollVars, sessVars, reportVars, asmVars, traceeVars, appendVars>>
        /\ IF pidFile \notin DOMAIN files THEN
               \* "no active delve session (pid file not found)", return nil
               /\ last' = ret("ok")
               /\ UNCHANGED <<files, engines>>
           ELSE LET a == Atoi(TrimSpace(files[pidFile]))
                IN  IF ~a.ok THEN
                        /\ last' = ret("badpid")
                        /\ UNCHANGED <<files, engines>>
                    ELSE
                        /\ engines' = Kill(engines, a.val, "SIGTERM")
                        /\ files' = Remove(Remove(files, addrFile), pidFile)
                        /\ last' = [ret("ok") EXCEPT !.pid = a.val]

\* newClient: resolve the address, then rpc2.NewClient(addr) dials it.
newClient(dbg, dlvAddr, cwd) ==
    LET r == getAddr(dbg, dlvAddr, cwd, files)
    IN  /\ last' = [Idle EXCEPT !.cmd = "client", !.dbg = dbg, !.dlvAddr = dlvAddr,
                                !.cwd = cwd,
                                !.err = IF r.ok THEN "ok" ELSE "nosession",
                                !.addr = r.addr, !.errPath = r.errPath,
                                !.read = r.read, !.dialed = r.ok]
        /\ UNCHANGED <<files, engines>>
        /\ UNCHANGED <<pollVars, sessVars, reportVars, asmVars, traceeVars, appendVars>>

\* The user writes an address to the addr file by hand, as getAddr's error
\* message instructs ("or write address to <path>").
UserWritesAddr(dbg, cwd) ==
    /\ Resolve(cwd, getAddrFilePath(dbg)) \notin DOMAIN files
    /\ files' = WriteFile(files, Resolve(cwd, getAddrFilePath(dbg)), ManualAddr \o <<NL>>)
    /\ last' = [Idle EXCEPT !.cmd = "user"]
    /\ UNCHANGED engines
    /\ UNCHANGED <<pollVars, sessVars, reportVars, asmVars, traceeVars, appendVars>>

\* A signal sent to the session of the (exited) invoker, e.g. the hangup of
\* its terminal: it reaches the processes of that session only.
SessionSignal ==
    /\ engines # <<>>
    /\ engines' = [p \in DOMAIN engines |->
                     IF ~engines[p].alive THEN engines[p]
                     ELSE IF engines[p].sid = "invoker"
                     THEN [engines[p] EXCEPT !.alive = FALSE, !.killedBy = "SIGHUP"]
                     ELSE [engines[p] EXCEPT !.hup = TRUE]]
    /\ UNCHANGED <<files, last>>
    /\ UNCHANGED <<pollVars, sessVars, reportVars, asmVars, traceeVars, appendVars>>

\* A live engine writes to its standard output after the launcher has exited.
\* A pipe whose only reader was the launcher faults with SIGPIPE; a regular
\* file (even an unlinked one) takes the write.
EngineStdoutWrite(pid) ==
    /\ engines[pid].alive
    /\ engines' = IF engines[pid].stdout = "pipe"
                  THEN [engines EXCEPT ![pid].alive = FALSE, ![pid].killedBy = "SIGPIPE"]
                  ELSE [engines EXCEPT ![pid].wrote = TRUE]
    /\ UNCHANGED <<files, last>>
    /\ UNCHANGED <<pollVars, sessVars, reportVars, asmVars, traceeVars, appendVars>>

\* The ways a start can go: dlv is not installed, the spawn fails, or the
\* engine runs and the loop sees one of StartObs.
StartStep(dbgs, cwds) ==
    \E dbg \in dbgs, cwd \in cwds :
        \/ \E target \in Targets :
               cmdStart(dbg, cwd, "test+exec", target, TRUE, TRUE, NoLine)
        \/ \E mode \in Modes, target \in Targets, dlvFound \in BOOLEAN :
               cmdStart(dbg, cwd, mode, target, dlvFound, ~dlvFound, NoLine)
        \/ \E mode \in Modes \ {"test+exec"}, target \in Targets,
                obs \in StartObs(EnginePid(Cardinality(DOMAIN engines) + 1)) :
               cmdStart(dbg, cwd, mode, target, TRUE, TRUE, obs)

StopStep(dbgs, cwds) == \E dbg \in dbgs, cwd \in cwds : cmdStop(dbg, cwd)

ClientStep ==
    \E dbg \in DbgDirs, dlvAddr \in DlvAddrs, cwd \in Cwds : newClient(dbg, dlvAddr, cwd)

UserStep == \E cwd \in Cwds : UserWritesAddr(EmptyPath, cwd)

EngineStep == \E pid \in DOMAIN engines : EngineStdoutWrite(pid)

\* The handle store under every environment and directory.
NextLauncher ==
    StartStep(DbgDirs, Cwds) \/ StopStep(DbgDirs, Cwds) \/ ClientStep \/ UserStep

\* The life of the engine processes after their launcher has exited.
NextDetach ==
    StartStep({EmptyPath}, {Proj}) \/ StopStep({EmptyPath}, {Proj})
        \/ SessionSignal \/ EngineStep

----------------------------------------------------------------------------
(* The engine as the dispatcher sees it over RPC.  Errors are texts, one    *)
(* token per word; nil is the empty text.                                   *)

MaxBps == 2

nil == <<>>

\* "Process N has exited with status M", the engine's message once the
\* tracee is gone.
ExitError(status) ==
    <<"Process", "4242", "has", "exited", "with", "status">> \o Itoa(status)

ExitErrors == {ExitError(0), ExitError(1)}

\* Any other failure of a call.
OtherErrors ==
    { <<"connection", "is", "shut", "down">>,
      <<"Process", "4242", "has", "exited">>,
      <<"exited", "with", "status", "1">> }

\* api.DebuggerState, as far as the dispatcher reads it: sel is the id of the
\* selected goroutine (0: none), threads the breakpoint ids of the threads
\* that are parked at a breakpoint.
State(exited, status, running, sel, threads) ==
    [exited |-> exited, status |-> status, running |-> running, sel |-> sel,
     threads |-> threads]

StoppedStates == {State(FALSE, 0, FALSE, 1, <<>>), State(FALSE, 0, FALSE, 0, <<>>)}

RunningState == State(FALSE, 0, TRUE, 0, <<>>)

ExitedStates == {State(TRUE, 0, FALSE, 0, <<>>), State(TRUE, 1, FALSE, 0, <<>>)}

NoState == State(FALSE, 0, FALSE, 0, <<>>)

\* The source locations of the tracee that FindLocation knows: a location
\* spec resolves to a list of [pc, pcs, file, line], or to an error.
Loc(pc0, pcs, file, ln) == [pc |-> pc0, pcs |-> pcs, file |-> file, line |-> ln]

FindLocation(locspec) ==
    CASE locspec = <<"pipeline.go:27">> ->
             [err |-> nil, locs |-> <<Loc(100, <<>>, "pipeline.go", 27)>>]
      [] locspec = <<"main.Window">> ->
             [err |-> nil, locs |-> <<Loc(200, <<>>, "pipeline.go", 24),
                                     Loc(0, <<100, 101>>, "pipeline.go", 27)>>]
      [] locspec = <<"runtime.stub">> ->
             [err |-> nil, locs |-> <<Loc(0, <<>>, "stub.s", 1)>>]
      [] locspec = <<"blank.go:1">> ->
             [err |-> nil, locs |-> <<>>]
      [] OTHER ->
             [err |-> <<"location", "not", "found">>, locs |-> <<>>]

\* CreateBreakpoint: the engine refuses a second breakpoint at an address,
\* otherwise registers the breakpoint under the next id.
CreateBreakpoint(e, bp) ==
    IF \E b \in e.bps : b.addr = bp.addr
    THEN [err |-> <<"Breakpoint", "exists", "at">> \o Itoa(bp.addr), bp |-> bp, eng |-> e]
    ELSE LET created == [bp EXCEPT !.id = e.nextId]
         IN  [err |-> nil, bp |-> created,
              eng |-> [e EXCEPT !.bps = @ \cup {created}, !.nextId = @ + 1]]

\* ClearBreakpoint: an id that is not registered is an error.
ClearBreakpoint(e, id) ==
    IF \E b \in e.bps : b.id = id
    THEN [err |-> nil, eng |-> [e EXCEPT !.bps = {b \in @ : b.id # id}]]
    ELSE [err |-> <<"no", "breakpoint", "with", "id">> \o Itoa(id), eng |-> e]

\* What Continue, Next, Step or StepOut can answer: a new stop (for continue
\* at one of the breakpoints), the exit of the tracee (as a state marked
\* exited, as the exit error, or both), or a failure of the call.
ResumeReplies(e, name) ==
    {[err |-> nil, state |-> st] : st \in StoppedStates \cup {RunningState}}
    \cup (IF name = "continue"
          THEN {[err |-> nil, state |-> State(FALSE, 0, FALSE, 1, <<b.id>>)] : b \in e.bps}
          ELSE {})
    \cup {[err |-> nil, state |-> st] : st \in ExitedStates}
    \cup {[err |-> ExitError(st.status), state |-> st] : st \in ExitedStates}
    \cup {[err |-> x, state |-> NoState] : x \in ExitErrors \cup OtherErrors}

IsExitReply(r) == r.state.exited \/ r.err \in ExitErrors

\* GetState: once the tracee has exited the engine answers with the exit
\* error; any call can also fail for another reason.
GetStateReplies(e) ==
    IF e.tracee = "exited" THEN {[err |-> x, state |-> NoState] : x \in ExitErrors}
    ELSE {[err |-> nil, state |-> st] : st \in StoppedStates}
         \cup {[err |-> x, state |-> NoState] : x \in OtherErrors}

----------------------------------------------------------------------------
(* The command dispatcher.  Every command function returns                  *)
(* [ret, rpcs, printed, eng]: the error it returns (nil: none), the RPCs it *)
(* issued, the lines it printed, and the engine state it leaves.            *)

Result(ret, rpcs, printed, e) == [ret |-> ret, rpcs |-> rpcs, printed |-> printed, eng |-> e]

\* strings.Contains(err.Error(), "has exited with status") in Run
hasExitedWithStatus_Never(err) == FALSE

hasExitedWithStatus(err) == Contains(err, <<"has", "exited", "with", "status">>)

\* isExitError
isExitError_Never(err) == FALSE

isExitError(err) == err # nil /\ Contains(err, <<"has", "exited", "with", "status">>)

RECURSIVE ThreadLines(_)
ThreadLines(threads) ==
    IF threads = <<>> THEN <<>>
    ELSE <<(<<"thread", "at", "breakpoint">> \o Itoa(Head(threads)))>>
         \o ThreadLines(Tail(threads))

\* printState: the lines it prints (it always returns nil).
printState(state) ==
    IF state.exited THEN <<(<<"Process", "exited", "with", "status">> \o Itoa(state.status))>>
    ELSE IF state.running THEN <<(<<"Process", "is", "running.">>)>>
    ELSE LET g == IF state.sel # 0 THEN <<(<<"goroutine">> \o Itoa(state.sel))>> ELSE <<>>
             t == ThreadLines(state.threads)
         IN  IF g \o t = <<>> THEN <<(<<"stopped">>)>> ELSE g \o t

\* strings.Join(args, " ")
RECURSIVE JoinArgs(_)
JoinArgs(args) ==
    IF args = <<>> THEN <<>>
    ELSE IF Len(args) = 1 THEN args[1]
    ELSE args[1] \o <<SP>> \o JoinArgs(Tail(args))

\* strings.Index(s, " if "): position of the first " if ", 0 when absent.
RECURSIVE IndexIf(_, _)
IndexIf(s, i) ==
    IF i + 2 > Len(s) THEN 0
    ELSE IF SubSeq(s, i, i + 2) = <<SP, "if", SP>> THEN i ELSE IndexIf(s, i + 1)

\* The address cmdBreak uses for a resolved location (0: none, skipped).
BreakAddr(loc) == IF loc.pc = 0 /\ Len(loc.pcs) > 0 THEN loc.pcs[1] ELSE loc.pc

\* The loop of cmdBreak, leaving after the first location.
BreakLoop_FirstOnly(e, locs, cond, rpcs, printed) ==
    IF locs = <<>> \/ BreakAddr(Head(locs)) = 0 THEN Result(nil, rpcs, printed, e)
    ELSE LET loc == Head(locs)
             c == CreateBreakpoint(e, [id |-> 0, addr |-> BreakAddr(loc), file |-> loc.file,
                                       line |-> loc.line, cond |-> cond])
         IN  IF c.err # nil
             THEN Result(c.err, Append(rpcs, "CreateBreakpoint"), printed, c.eng)
             ELSE Result(nil, Append(rpcs, "CreateBreakpoint"),
                         Append(printed, <<"breakpoint">> \o Itoa(c.bp.id)), c.eng)

\* The loop of cmdBreak over the resolved locations.
RECURSIVE BreakLoop(_, _, _, _, _)
BreakLoop(e, locs, cond, rpcs, printed) ==
    IF locs = <<>> THEN Result(nil, rpcs, printed, e)
    ELSE LET loc == Head(locs)
             a == BreakAddr(loc)
         IN  IF a = 0 THEN BreakLoop(e, Tail(locs), cond, rpcs, printed)
             ELSE LET c == CreateBreakpoint(e, [id |-> 0, addr |-> a, file |-> loc.file,
                                                line |-> loc.line, cond |-> cond])
                  IN  IF c.err # nil
                      THEN Result(c.err, Append(rpcs, "CreateBreakpoint"), printed, c.eng)
                      ELSE BreakLoop(c.eng, Tail(locs), cond,
                                     Append(rpcs, "CreateBreakpoint"),
                                     Append(printed,
                                            <<"breakpoint">> \o Itoa(c.bp.id)
                                            \o (IF cond # <<>> THEN <<"if">> \o cond
                                                ELSE <<>>)))

\* A break that sends the whole joined string to location resolution.
SplitCond_Whole(args) == [locspec |-> JoinArgs(args), cond |-> <<>>]

\* The split of cmdBreak's joined arguments at the first " if ".
SplitCond(args) ==
    LET joined == JoinArgs(args)
        idx == IndexIf(joined, 1)
    IN  [locspec |-> IF idx > 0 THEN TrimSpace(SubSeq(joined, 1, idx - 1)) ELSE joined,
         cond |-> IF idx > 0 THEN TrimSpace(SubSeq(joined, idx + 3, Len(joined)))
                  ELSE <<>>]

\* cmdBreak
cmdBreak(e, args) ==
    IF Len(args) < 1 THEN Result(<<"usage:", "break">>, <<>>, <<>>, e)
    ELSE LET cond == SplitCond(args).cond
             locspec == SplitCond(args).locspec
             found == FindLocation(locspec)
         IN  IF found.err # nil THEN Result(found.err, <<"FindLocation">>, <<>>, e)
             ELSE IF Len(found.locs) = 0
             THEN Result(<<"no", "location", "found", "for">> \o locspec,
                         <<"FindLocation">>, <<>>, e)
             ELSE BreakLoop(e, found.locs, cond, <<"FindLocation">>, <<>>)

RECURSIVE BreakpointLines(_)
BreakpointLines(bs) ==
    IF bs = {} THEN <<>>
    ELSE LET b == CHOOSE x \in bs : \A y \in bs : x.id <= y.id
         IN  <<Itoa(b.id)>> \o BreakpointLines(bs \ {b})

\* cmdBreakpoints
cmdBreakpoints(e, fails) ==
    IF fails # nil THEN Result(fails, <<"ListBreakpoints">>, <<>>, e)
    ELSE Result(nil, <<"ListBreakpoints">>,
                BreakpointLines({b \in e.bps : b.id # 0}), e)

\* cmdClear reporting success without asking the engine.
cmdClear_NoRpc(e, args) ==
    IF Len(args) < 1 THEN Result(<<"usage:", "clear">>, <<>>, <<>>, e)
    ELSE LET id == Atoi(args[1])
         IN  IF ~id.ok THEN Result(<<"strconv.Atoi:", "invalid", "syntax">>, <<>>, <<>>, e)
             ELSE Result(nil, <<"ClearBreakpoint">>,
                         <<(<<"cleared", "breakpoint">> \o Itoa(id.val))>>, e)

\* cmdClear
cmdClear(e, args) ==
    IF Len(args) < 1 THEN Result(<<"usage:", "clear">>, <<>>, <<>>, e)
    ELSE LET id == Atoi(args[1])
         IN  IF ~id.ok THEN Result(<<"strconv.Atoi:", "invalid", "syntax">>, <<>>, <<>>, e)
             ELSE LET c == ClearBreakpoint(e, id.val)
                  IN  IF c.err # nil THEN Result(c.err, <<"ClearBreakpoint">>, <<>>, e)
                      ELSE Result(nil, <<"ClearBreakpoint">>,
                                  <<(<<"cleared", "breakpoint">> \o Itoa(id.val))>>, c.eng)

\* The engine after it answered a resume call with r.
Resumed(e, r) ==
    IF IsExitReply(r) THEN [e EXCEPT !.tracee = "exited"] ELSE e

\* cmdContinue: r is what arrives on the channel (r.err is state.Err).
cmdContinue(e, r) ==
    IF r.err # nil THEN
        IF isExitError(r.err) THEN Result(nil, <<"Continue">>, <<r.err>>, Resumed(e, r))
        ELSE Result(r.err, <<"Continue">>, <<>>, Resumed(e, r))
    ELSE IF r.state.exited THEN
        Result(nil, <<"Continue">>,
               <<(<<"Process", "exited", "with", "status">> \o Itoa(r.state.status))>>,
               Resumed(e, r))
    ELSE Result(nil, <<"Continue">>, printState(r.state), Resumed(e, r))

\* cmdStep for api.Next, api.Step, api.StepOut: r is (state, err).
cmdStep(e, name, r) ==
    LET rpc == CASE name = "next" -> <<"Next">>
                 [] name = "step" -> <<"Step">>
                 [] name = "stepout" -> <<"StepOut">>
                 [] OTHER -> <<>>
    IN  IF rpc = <<>> THEN Result(<<"unknown", "step", "command">>, <<>>, <<>>, e)
        ELSE IF isExitError(r.err) THEN Result(nil, rpc, <<r.err>>, Resumed(e, r))
        ELSE IF r.err # nil THEN Result(r.err, rpc, <<>>, Resumed(e, r))
        ELSE IF r.state.exited THEN
            Result(nil, rpc,
                   <<(<<"Process", "exited", "with", "status">> \o Itoa(r.state.status))>>,
                   Resumed(e, r))
        ELSE Result(nil, rpc, printState(r.state), Resumed(e, r))

\* cmdPrint, cmdLocals, cmdArgs, cmdStack, cmdGoroutines: one read-only call
\* that fails or yields the items to print.
cmdInspect(e, rpc, args, needsArg, fails) ==
    IF needsArg /\ Len(args) < 1 THEN Result(<<"usage:", "print">>, <<>>, <<>>, e)
    ELSE IF fails # nil THEN Result(fails, <<rpc>>, <<>>, e)
    ELSE Result(nil, <<rpc>>, <<(<<"name", "=", "value">>)>>, e)

\* The command names Run accepts for a live session, with their aliases.
Canon(cmd) ==
    CASE cmd = "bp" -> "breakpoints"
      [] cmd = "c" -> "continue"
      [] cmd = "n" -> "next"
      [] cmd = "s" -> "step"
      [] cmd = "so" -> "stepout"
      [] cmd = "p" -> "print"
      [] cmd = "bt" -> "stack"
      [] cmd = "grs" -> "goroutines"
      [] OTHER -> cmd

SessionCmds ==
    {"state", "break", "breakpoints", "clear", "continue", "next", "step", "stepout",
     "print", "locals", "args", "stack", "goroutines"}

ResumeCmds == {"continue", "next", "step", "stepout"}

\* The switch of Run.
Dispatch(e, cmd, args, st, r, fails) ==
    CASE Canon(cmd) = "state" -> Result(nil, <<>>, printState(st), e)
      [] Canon(cmd) = "break" -> cmdBreak(e, args)
      [] Canon(cmd) = "breakpoints" -> cmdBreakpoints(e, fails)
      [] Canon(cmd) = "clear" -> cmdClear(e, args)
      [] Canon(cmd) = "continue" -> cmdContinue(e, r)
      [] Canon(cmd) \in {"next", "step", "stepout"} -> cmdStep(e, Canon(cmd), r)
      [] Canon(cmd) = "print" -> cmdInspect(e, "EvalVariable", args, TRUE, fails)
      [] Canon(cmd) = "locals" -> cmdInspect(e, "ListLocalVariables", args, FALSE, fails)
      [] Canon(cmd) = "args" -> cmdInspect(e, "ListFunctionArgs", args, FALSE, fails)
      [] Canon(cmd) = "stack" -> cmdInspect(e, "Stacktrace", args, FALSE, fails)
      [] Canon(cmd) = "goroutines" -> cmdInspect(e, "ListGoroutines", args, FALSE, fails)
      [] OTHER -> Result(<<"unknown", "command">>, <<>>, <<(<<"Usage:">>)>>, e)

\* defer client.Disconnect(false): runs on every return after newClient.
Disconnect_OnSuccessOnly(events, n, ret) ==
    IF ret = nil THEN [events |-> Append(events, "disconnect"), conns |-> n - 1]
    ELSE [events |-> events, conns |-> n]

Disconnect(events, n, ret) == [events |-> Append(events, "disconnect"), conns |-> n - 1]

\* main: exit code of the process for the error Run returned.
main(ret) == IF ret # nil THEN 1 ELSE 0

NoReply == [err |-> nil, state |-> NoState]

NoInv ==
    [cmd |-> "none", args |-> <<>>, events |-> <<>>, stateReply |-> NoReply,
     reply |-> NoReply, ret |-> nil, code |-> 0, printed |-> <<>>, before |-> {},
     cleared |-> {}]

\* Run for a session command: newClient, deferred Disconnect, GetState, the
\* switch.  sr is the engine's answer to GetState, r its answer to a resume
\* call, fails the error of a read-only call (nil: it succeeds).  The record
\* of the invocation also keeps the ids that successful clear invocations
\* removed since a breakpoint was last created.
Run(cmd, args, dbg, dlvAddr, cwd, sr, r, fails) ==
    LET a == getAddr(dbg, dlvAddr, cwd, files)
        rec(events, res, e0) ==
            [cmd |-> cmd, args |-> args, events |-> events, stateReply |-> sr,
             reply |-> IF Canon(cmd) \in ResumeCmds THEN r ELSE NoReply,
             ret |-> res.ret, code |-> main(res.ret), printed |-> res.printed,
             before |-> e0.bps,
             cleared |-> IF res.eng.bps \ e0.bps # {} THEN {}
                         ELSE IF Canon(cmd) = "clear" /\ res.ret = nil /\ res.rpcs # <<>>
                         THEN inv.cleared \cup {Atoi(args[1]).val}
                         ELSE inv.cleared]
    IN  /\ UNCHANGED <<pollVars, launchVars, reportVars, asmVars, traceeVars, appendVars>>
        /\ IF ~a.ok THEN
               /\ inv' = [rec(<<"resolve">>, Result(<<"no", "DLV_ADDR">>, <<>>, <<>>, eng), eng)
                             EXCEPT !.stateReply = NoReply, !.reply = NoReply]
               /\ UNCHANGED <<eng, conns>>
           ELSE IF sr.err # nil THEN
               LET res == IF hasExitedWithStatus(sr.err)
                          THEN Result(nil, <<>>, <<sr.err>>, eng)
                          ELSE Result(sr.err, <<>>, <<>>, eng)
                   d == Disconnect(<<"resolve", "connect", "GetState">>, conns + 1, res.ret)
               IN  /\ inv' = [rec(d.events, res, eng) EXCEPT !.reply = NoReply]
                   /\ conns' = d.conns
                   /\ eng' = eng
           ELSE
               LET res == Dispatch(eng, cmd, args, sr.state, r, fails)
                   d == Disconnect(<<"resolve", "connect", "GetState">> \o res.rpcs,
                                   conns + 1, res.ret)
               IN  /\ res.eng.nextId <= MaxBps + 1
                   /\ inv' = rec(d.events, res, eng)
                   /\ conns' = d.conns
                   /\ eng' = res.eng

BreakArgSets ==
    { << <<"pipeline.go:27">> >>,
      << <<"pipeline.go:27">>, <<"if">>, <<"start == 12">> >>,
      << <<"pipeline.go:27">>, <<"if">>, <<"a">>, <<"if">>, <<"b">> >>,
      << <<"main.Window">> >>,
      << <<"runtime.stub">> >>,
      << <<"blank.go:1">> >>,
      << <<"nowhere.go:9">> >>,
      <<>> }

ClearArgSets == { << <<"1">> >>, << <<"2">> >>, << <<"x">> >>, <<>> }

PrintArgSets == { << <<"end">> >>, <<>> }

ArgSets(cmd) ==
    CASE Canon(cmd) = "break" -> BreakArgSets
      [] Canon(cmd) = "clear" -> ClearArgSets
      [] Canon(cmd) = "print" -> PrintArgSets
      [] OTHER -> {<<>>}

CmdInputs == SessionCmds \cup {"c", "frobnicate"}

\* A session command run where no handle is found (proj/sub, no DLV_ADDR).
RunNoSession ==
    \E cmd \in CmdInputs, args \in {<<>>} :
        Run(cmd, args, EmptyPath, <<>>, Sub, NoReply, NoReply, nil)

\* A session command whose state query fails.
RunStateFails ==
    \E cmd \in CmdInputs, sr \in {x \in GetStateReplies(eng) : x.err # nil} :
        \E args \in ArgSets(cmd) :
            Run(cmd, args, EmptyPath, <<>>, Proj, sr, NoReply, nil)

\* A session command whose state query succeeds.
RunCommand ==
    \E cmd \in CmdInputs, sr \in {x \in GetStateReplies(eng) : x.err = nil},
       env \in {<<<<>>, Proj>>} :
        \E args \in ArgSets(cmd),
           r \in (IF Canon(cmd) \in ResumeCmds THEN ResumeReplies(eng, Canon(cmd))
                  ELSE {NoReply}),
           fails \in (IF Canon(cmd) \in {"breakpoints", "print", "locals", "args",
                                         "stack", "goroutines"}
                      THEN {nil} \cup OtherErrors ELSE {nil}) :
            Run(cmd, args, EmptyPath, env[1], env[2], sr, r, fails)

RunStep == RunNoSession \/ RunStateFails \/ RunCommand

NextSession == RunStep

----------------------------------------------------------------------------
(* The report fragment store: report-init and the six appenders.  A         *)
(* fragment is a file of the artifact directory; its text is a sequence of  *)
(* tokens in which NL ends a line.  Every handler returns [ret, fs,         *)
(* printed]: its error (nil: none), the file system it leaves, its output.  *)

MaxReports == 3

\* The backquote and the code fence (three backquotes), as tokens.
BT == "<bq>"

FENCE == "<fence>"

reportMainFile == "00_report.md"

reportTraceFile == "10_trace.md"

reportEvidFile == "20_evidence.md"

reportConcFile == "90_conclusion.md"

Fragments == {reportMainFile, reportTraceFile, reportEvidFile, reportConcFile}

\* Every fragment name taken for the header fragment.
rfile_Main(dir, name) == Join(dir, Rel(<<reportMainFile>>))

\* rfile: filepath.Join(dir, name)
rfile(dir, name) == Join(dir, Rel(<<name>>))

\* os.ReadFile with the error dropped: a missing file reads as empty.
ReadFile(fs, path) == IF path \in DOMAIN fs THEN fs[path] ELSE <<>>

\* A directory exists when it holds a file.
DirExists(fs, d) == \E q \in DOMAIN fs : Len(q) > Len(d) /\ SubSeq(q, 1, Len(d)) = d

Outcome(ret, fs, printed) == [ret |-> ret, fs |-> fs, printed |-> printed]

\* A write that replaces the content of the file.
appendToFile_Truncate(fs, path, content) ==
    IF ~DirExists(fs, SubSeq(path, 1, Len(path) - 1)) THEN [err |-> <<"open">>, fs |-> fs]
    ELSE [err |-> nil,
          fs |-> [q \in DOMAIN fs \cup {path} |-> IF q = path THEN content ELSE fs[q]]]

\* appendToFile: O_APPEND|O_CREATE|O_WRONLY, one WriteString.  The open
\* fails when the directory of the file is missing.
appendToFile(fs, path, content) ==
    IF ~DirExists(fs, SubSeq(path, 1, Len(path) - 1)) THEN [err |-> <<"open">>, fs |-> fs]
    ELSE [err |-> nil,
          fs |-> [q \in DOMAIN fs \cup {path} |->
                    IF q = path THEN ReadFile(fs, path) \o content ELSE fs[q]]]

\* fileContains
fileContains_Never(fs, path, sub) == FALSE

fileContains(fs, path, sub) == Contains(ReadFile(fs, path), sub)

\* strings.Split(s, "\n")
RECURSIVE SplitLines(_)
SplitLines(s) ==
    IF IndexNL(s, 1) = 0 THEN <<s>>
    ELSE <<SubSeq(s, 1, IndexNL(s, 1) - 1)>> \o SplitLines(SubSeq(s, IndexNL(s, 1) + 1, Len(s)))

\* strings.TrimRight(s, "\n")
RECURSIVE TrimRightNL(_)
TrimRightNL(s) ==
    IF s # <<>> /\ s[Len(s)] = NL THEN TrimRightNL(SubSeq(s, 1, Len(s) - 1)) ELSE s

\* readSourceContext: [err, panic, lines, first].  all[first:last] with
\* first > last is a run-time panic (slice bounds out of range).
readSourceContext(fs, cwd, file, ln, ctx) ==
    IF Resolve(cwd, file) \notin DOMAIN fs
    THEN [err |-> <<"open">>, panic |-> FALSE, lines |-> <<>>, first |-> 0]
    ELSE LET all == SplitLines(fs[Resolve(cwd, file)])
             first == IF ln - ctx - 1 < 0 THEN 0 ELSE ln - ctx - 1
             lst == IF ln + ctx > Len(all) THEN Len(all) ELSE ln + ctx
         IN  IF first > lst
             THEN [err |-> nil, panic |-> TRUE, lines |-> <<>>, first |-> 0]
             ELSE [err |-> nil, panic |-> FALSE, lines |-> SubSeq(all, first + 1, lst),
                   first |-> first + 1]

RECURSIVE JoinLines(_)
JoinLines(lines) ==
    IF lines = <<>> THEN <<>> ELSE Head(lines) \o <<NL>> \o JoinLines(Tail(lines))

\* fmtSourceBlock
fmtSourceBlock(lines, firstLine, highlightLine) ==
    <<FENCE, "go {highlightlines=">> \o Itoa(highlightLine) \o <<" firstnumber=">>
    \o Itoa(firstLine) \o <<" highlightcolor=yellow!40}", NL>>
    \o JoinLines(lines) \o <<FENCE, NL>>

TemplateFiles ==
    {"debug_report_preamble.tex", "styles.tex", "debug_report_template_md.tex", "minted.lua"}

\* installTemplatesDir for templates/tex and templates/lua.
installTemplatesDir(fs, dest) ==
    [q \in DOMAIN fs \cup {dest \o <<t>> : t \in TemplateFiles} |->
        IF \E t \in TemplateFiles : q = dest \o <<t>> THEN <<"template">> ELSE fs[q]]

Usage(cmd) == <<"usage:", cmd>>

\* "--" stands for the dash of the title format.
TitlePrefix == "# Debug Report -- "

\* cmdReportInit: rest are the positional arguments, in the flags.
cmdReportInit(fs, cwd, rest, in) ==
    IF Len(rest) # 1 THEN Outcome(Usage("report-init"), fs, <<>>)
    ELSE LET dir == rest[1]
             d == IF in.date = <<>> THEN <<"today">> ELSE in.date
             pk == IF in.pkg = <<>> THEN <<"unknown">> ELSE in.pkg
             header == <<TitlePrefix>> \o pk \o <<" -- ">> \o d \o <<NL, NL>>
             installed == installTemplatesDir(fs, Resolve(cwd, dir))
         IN  Outcome(nil,
                     WriteFile(installed, Resolve(cwd, rfile(dir, reportMainFile)), header),
                     <<(<<"initialized">>)>>)

\* The tail of an appender: appendToFile, then the message.
Appended(fs, path, content, msg) ==
    LET a == appendToFile(fs, path, content)
    IN  IF a.err # nil THEN Outcome(a.err, fs, <<>>) ELSE Outcome(nil, a.fs, <<msg>>)

\* cmdReportHypothesis
cmdReportHypothesis(fs, cwd, rest, in) ==
    IF Len(rest) # 1 THEN Outcome(Usage("report-hypothesis"), fs, <<>>)
    ELSE LET section == <<"## Hypothesis", NL, NL, "Suspected location: ", BT>> \o in.loc
                        \o <<BT, NL, NL, "Expected: ">> \o in.expected
                        \o <<NL, NL, "Actual: ">> \o in.actual \o <<NL>>
         IN  Appended(fs, Resolve(cwd, rfile(rest[1], reportMainFile)),
                      <<NL>> \o section, <<"appended hypothesis">>)

TraceHeader ==
    <<"## Debugging Trace", NL, NL, "| # | Action | Location | Reasoning |", NL,
      "| - | ------ | -------- | --------- |", NL>>

TraceRow(in) ==
    <<"| ">> \o Itoa(in.n) \o <<" | ">> \o in.action \o <<" | ", BT>> \o in.loc
    \o <<BT, " | ">> \o in.reason \o <<" |", NL>>

\* cmdReportTraceRow
cmdReportTraceRow(fs, cwd, rest, in) ==
    IF Len(rest) # 1 THEN Outcome(Usage("report-trace-row"), fs, <<>>)
    ELSE LET path == Resolve(cwd, rfile(rest[1], reportTraceFile))
             row == IF ~fileContains(fs, path, <<"## Debugging Trace">>)
                    THEN TraceHeader \o TraceRow(in) ELSE TraceRow(in)
         IN  Appended(fs, path, row, <<"appended trace row">>)

\* fmtBlock of cmdReportEvidence
fmtBlock(label, text) ==
    IF text = <<>> THEN <<>>
    ELSE <<"**", label, ":**", NL, NL, FENCE, "text", NL>> \o TrimRightNL(text)
         \o <<NL, FENCE, NL, NL>>

\* cmdReportEvidence; a panic of readSourceContext ends the process.
cmdReportEvidence(fs, cwd, rest, in) ==
    IF Len(rest) # 1 THEN Outcome(Usage("report-evidence"), fs, <<>>)
    ELSE LET path == Resolve(cwd, rfile(rest[1], reportEvidFile))
             head == (IF ~fileContains(fs, path, <<"## Breakpoints & Evidence">>)
                      THEN <<"## Breakpoints & Evidence", NL>> ELSE <<>>)
                     \o <<NL, "### ">> \o in.loc \o <<NL, NL>>
             wantSrc == in.srcFile # EmptyPath /\ in.highlight > 0
             src == IF wantSrc
                    THEN readSourceContext(fs, cwd, in.srcFile, in.highlight, in.ctx)
                    ELSE [err |-> <<"none">>, panic |-> FALSE, lines |-> <<>>, first |-> 0]
             srcText == IF src.err = nil
                        THEN <<"**Source context:**", NL, NL>>
                             \o fmtSourceBlock(src.lines, src.first, in.highlight) \o <<NL>>
                        ELSE <<>>
             printText == IF in.printExpr # <<>> /\ in.printVal # <<>>
                          THEN <<"**Print ", BT>> \o in.printExpr \o <<BT, ":**", NL, NL, FENCE, "text", NL>>
                               \o TrimRightNL(in.printVal) \o <<NL, FENCE, NL, NL>>
                          ELSE IF in.printVal # <<>> THEN fmtBlock("Print", in.printVal)
                          ELSE <<>>
             obsText == IF in.obs # <<>> THEN <<"**Observation:** ">> \o in.obs \o <<NL>>
                        ELSE <<>>
         IN  IF src.panic THEN Outcome(<<"panic:", "slice bounds out of range">>, fs, <<>>)
             ELSE Appended(fs, path,
                           head \o srcText \o fmtBlock("Args", in.args)
                           \o fmtBlock("Locals", in.locals) \o fmtBlock("Stack", in.stack)
                           \o printText \o obsText,
                           <<"appended evidence">>)

\* cmdReportRootCause
cmdReportRootCause(fs, cwd, rest, in) ==
    IF Len(rest) # 1 THEN Outcome(Usage("report-root-cause"), fs, <<>>)
    ELSE Appended(fs, Resolve(cwd, rfile(rest[1], reportConcFile)),
                  <<NL, "## Root Cause", NL, NL>> \o in.text \o <<NL>>,
                  <<"appended root cause">>)

\* cmdReportFix
cmdReportFix(fs, cwd, rest, in) ==
    IF Len(rest) # 1 THEN Outcome(Usage("report-fix"), fs, <<>>)
    ELSE Appended(fs, Resolve(cwd, rfile(rest[1], reportConcFile)),
                  <<NL, "## Fix Applied", NL, NL>> \o in.text \o <<NL>>
                  \o (IF in.diff # <<>>
                      THEN <<NL, FENCE, "diff", NL>> \o TrimRightNL(in.diff) \o <<NL, FENCE, NL>>
                      ELSE <<>>),
                  <<"appended fix">>)

\* cmdReportVerification
cmdReportVerification(fs, cwd, rest, in) ==
    IF Len(rest) # 1 THEN Outcome(Usage("report-verification"), fs, <<>>)
    ELSE Appended(fs, Resolve(cwd, rfile(rest[1], reportConcFile)),
                  <<NL, "## Post-fix Verification", NL, NL>> \o in.text \o <<NL>>,
                  <<"appended verification">>)

\* The artifact directory of the report commands, and the source file the
\* evidence quotes.
ReportDir == Rel(<<"dbg">>)

SourceFile == Rel(<<"pipeline.go">>)

SourceText == <<"func Window", NL, "  if end > len(data)-1 {", NL, "}", NL>>

InitInputs ==
    { [pkg |-> <<>>, date |-> <<>>],
      [pkg |-> <<"example/pipeline">>, date |-> <<"2026-02-27">>] }

HypothesisInputs ==
    { [loc |-> <<"pipeline.go:27">>, expected |-> <<"4 elements">>,
       actual |-> <<"3 elements">>] }

TraceInputs ==
    { [n |-> 1, action |-> <<"set">>, loc |-> <<"pipeline.go:27">>,
       reason |-> <<"see ", "## Debugging Trace">>],
      [n |-> 2, action |-> <<"hit">>, loc |-> <<>>, reason |-> <<"a | b">>] }

NoEvidence ==
    [loc |-> <<>>, srcFile |-> EmptyPath, highlight |-> 0, ctx |-> 2, args |-> <<>>,
     locals |-> <<>>, stack |-> <<>>, printExpr |-> <<>>, printVal |-> <<>>, obs |-> <<>>]

EvidenceInputs ==
    { [NoEvidence EXCEPT !.loc = <<"pipeline.go:27">>, !.srcFile = SourceFile,
                         !.highlight = 2, !.ctx = 1,
                         !.args = <<"size = 4", NL, "step = 2", NL>>,
                         !.printExpr = <<"end">>, !.printVal = <<"16", NL>>,
                         !.obs = <<"end is clamped">>],
      [NoEvidence EXCEPT !.loc = <<"## Breakpoints & Evidence">>, !.printVal = <<"15">>],
      [NoEvidence EXCEPT !.loc = <<"pipeline.go:99">>, !.srcFile = SourceFile,
                         !.highlight = 9] }

TextInputs == { [text |-> <<"guard uses len-1">>, diff |-> <<"-a", NL, "+b", NL>>] }

\* What one report-build did: the markdown handed to the transform, whether
\* the compiler wrote the PDF in this invocation, and the PDF copied, if any.
NoBuilt == [md |-> <<>>, body |-> <<>>, compiled |-> FALSE, copied |-> <<>>]

NoRep ==
    [cmd |-> "none", ret |-> nil, code |-> 0, printed |-> <<>>, count |-> 0,
     inits |-> 0, rows |-> <<>>, built |-> NoBuilt]

\* One report command, as Run dispatches it before any session is looked up:
\* res is what its handler returned.  The rows are those of the successful
\* report-trace-row invocations, in call order.
Reported(cmd, res, row) ==
    /\ rep.count < MaxReports
    /\ files' = res.fs
    /\ rep' = [cmd |-> cmd, ret |-> res.ret,
               code |-> IF res.ret = nil THEN 0
                        ELSE IF res.ret[1] = "panic:" THEN 2 ELSE main(res.ret),
               printed |-> res.printed, count |-> rep.count + 1,
               inits |-> IF cmd = "report-init" /\ res.ret = nil THEN rep.inits + 1
                         ELSE rep.inits,
               rows |-> IF cmd = "report-trace-row" /\ res.ret = nil
                        THEN Append(rep.rows, row) ELSE rep.rows,
               built |-> IF cmd = "report-build" THEN res.built ELSE NoBuilt]
    /\ UNCHANGED <<pollVars, engines, last, sessVars, asmVars, traceeVars, appendVars>>

RestInputs == {<<>>, <<ReportDir>>}

ReportInit ==
    \E rest \in RestInputs, in \in InitInputs :
        Reported("report-init", cmdReportInit(files, Proj, rest, in), <<>>)

ReportHypothesis ==
    \E rest \in RestInputs, in \in HypothesisInputs :
        Reported("report-hypothesis", cmdReportHypothesis(files, Proj, rest, in), <<>>)

ReportTraceRow ==
    \E rest \in RestInputs, in \in TraceInputs :
        Reported("report-trace-row", cmdReportTraceRow(files, Proj, rest, in), TraceRow(in))

ReportEvidence ==
    \E rest \in RestInputs, in \in EvidenceInputs :
        Reported("report-evidence", cmdReportEvidence(files, Proj, rest, in), <<>>)

ReportRootCause ==
    \E rest \in RestInputs, in \in TextInputs :
        Reported("report-root-cause", cmdReportRootCause(files, Proj, rest, in), <<>>)

ReportFix ==
    \E rest \in RestInputs, in \in TextInputs :
        Reported("report-fix", cmdReportFix(files, Proj, rest, in), <<>>)

ReportVerification ==
    \E rest \in RestInputs, in \in TextInputs :
        Reported("report-verification", cmdReportVerification(files, Proj, rest, in), <<>>)

NextReport ==
    \/ ReportInit
    \/ ReportHypothesis
    \/ ReportTraceRow
    \/ ReportEvidence
    \/ ReportRootCause
    \/ ReportFix
    \/ ReportVerification

----------------------------------------------------------------------------
(* Report appenders run at the same time on one artifact directory.  An     *)
(* appender first builds its text, reading the fragment where it checks for *)
(* the section header, then opens the fragment in append mode and hands the *)
(* whole text to one write, which the system puts at the end of the file.   *)

MaxProcs == 2

Procs == 1..MaxProcs

NoAp == <<>>

IdleProc == [pc |-> "idle", path |-> <<>>, text |-> <<>>, ret |-> nil]

\* The text a handler appends to the fragment at path, given the file system
\* fs it read while building the text and its outcome res.
Contribution(fs, path, res) ==
    IF res.ret # nil THEN <<>>
    ELSE SubSeq(res.fs[path], Len(ReadFile(fs, path)) + 1, Len(res.fs[path]))

\* From the flag parsing to the call of appendToFile: the text is built.
Prepared(p, name, res) ==
    LET path == Resolve(Proj, rfile(ReportDir, name))
    IN  /\ ap[p].pc = "idle"
        /\ ap' = [ap EXCEPT ![p] = [pc |-> IF res.ret = nil THEN "ready" ELSE "done",
                                    path |-> path,
                                    text |-> Contribution(files, path, res),
                                    ret |-> res.ret]]
        /\ UNCHANGED <<pollVars, launchVars, sessVars, reportVars, asmVars, traceeVars>>

Prepare(p) ==
    \/ \E in \in HypothesisInputs :
           Prepared(p, reportMainFile, cmdReportHypothesis(files, Proj, <<ReportDir>>, in))
    \/ \E in \in TraceInputs :
           Prepared(p, reportTraceFile, cmdReportTraceRow(files, Proj, <<ReportDir>>, in))
    \/ \E in \in EvidenceInputs :
           Prepared(p, reportEvidFile, cmdReportEvidence(files, Proj, <<ReportDir>>, in))
    \/ \E in \in TextInputs :
           Prepared(p, reportConcFile, cmdReportRootCause(files, Proj, <<ReportDir>>, in))
    \/ \E in \in TextInputs :
           Prepared(p, reportConcFile, cmdReportFix(files, Proj, <<ReportDir>>, in))
    \/ \E in \in TextInputs :
           Prepared(p, reportConcFile, cmdReportVerification(files, Proj, <<ReportDir>>, in))

\* appendToFile, called with the text built before.
AppendWrite(p) ==
    /\ ap[p].pc = "ready"
    /\ files' = appendToFile(files, ap[p].path, ap[p].text).fs
    /\ ap' = [ap EXCEPT ![p].pc = "done",
                        ![p].ret = appendToFile(files, ap[p].path, ap[p].text).err]
    /\ UNCHANGED <<pollVars, engines, last, sessVars, reportVars, asmVars, traceeVars>>

NextAppend == \E p \in Procs : Prepare(p) \/ AppendWrite(p)

----------------------------------------------------------------------------
(* The assembler's markdown pass: fixMarkdownTables.  A line is a sequence  *)
(* of tokens; what the pass looks at in a token is whether it starts with   *)
(* a pipe, how many pipes it holds and whether it holds "---".              *)

MaxLines == 4

\* strings.Count(tok, "|")
Pipes(tok) ==
    CASE tok \in {"|", "| ", " | ", " |", "a | b", "|x", " --- |"} -> 1
      [] tok \in {"| a | b"} -> 2
      [] tok \in {"| a | b |", "| 1 | 2 |", "| --- | --- |", "| x --- y | 1 |"} -> 3
      [] tok \in {"| # | Action | Location | Reasoning |",
                  "| - | ------ | -------- | --------- |"} -> 5
      [] OTHER -> 0

\* strings.HasPrefix(tok, "|")
StartsPipe(tok) ==
    tok \in {"|", "| ", "|x", "| a | b", "| a | b |", "| 1 | 2 |", "| --- | --- |",
             "| x --- y | 1 |", "| # | Action | Location | Reasoning |",
             "| - | ------ | -------- | --------- |"}

\* strings.Contains(tok, "---")
Dashes(tok) ==
    tok \in {" --- |", "| --- | --- |", "| x --- y | 1 |",
             "| - | ------ | -------- | --------- |"}

RECURSIVE CountPipes(_)
CountPipes(ln) == IF ln = <<>> THEN 0 ELSE Pipes(Head(ln)) + CountPipes(Tail(ln))

HasPrefixPipe(ln) == ln # <<>> /\ StartsPipe(ln[1])

ContainsDashes(ln) == \E i \in 1..Len(ln) : Dashes(ln[i])

\* isTableRow := HasPrefix(line, "|") && Contains(line[1:], "|")
isTableRow(ln) == HasPrefixPipe(ln) /\ CountPipes(ln) - 1 >= 1

\* isSeparator := isTableRow && Contains(line, "---")
isSeparator(ln) == isTableRow(ln) /\ ContainsDashes(ln)

\* sep := "|" followed by nc times " --- |"
RECURSIVE SepRow(_)
SepRow(nc) == IF nc = 0 THEN <<"|">> ELSE SepRow(nc - 1) \o <<" --- |">>

\* strings.Join(lines, "\n")
RECURSIVE JoinNL(_)
JoinNL(lines) ==
    IF lines = <<>> THEN <<>>
    ELSE IF Len(lines) = 1 THEN lines[1]
    ELSE Head(lines) \o <<NL>> \o JoinNL(Tail(lines))

\* The loop of fixMarkdownTables from index i on (1-based), with inTable.
RECURSIVE FixLoop(_, _, _)
FixLoop(lines, i, inTable) ==
    IF i > Len(lines) THEN <<>>
    ELSE LET ln == lines[i]
             nc == IF CountPipes(ln) - 1 < 1 THEN 1 ELSE CountPipes(ln) - 1
             insert == /\ isTableRow(ln) /\ ~inTable /\ i + 1 <= Len(lines)
                       /\ HasPrefixPipe(lines[i + 1])
                       /\ ~ContainsDashes(lines[i + 1])
         IN  <<ln>> \o (IF insert THEN <<SepRow(nc)>> ELSE <<>>)
             \o FixLoop(lines, i + 1, isTableRow(ln) \/ isSeparator(ln))

fixMarkdownTables(text) == JoinNL(FixLoop(SplitLines(text), 1, FALSE))

\* The lines a markdown body is made of here.
LineSet ==
    { <<>>, <<"text">>, <<"| a | b |">>, <<"| 1 | 2 |">>, <<"| a | b">>, <<"| --- | --- |">>,
      <<"|x">>, <<FENCE, "text">> }

Bodies == UNION { [1..n -> LineSet] : n \in 1..MaxLines }

NoMd == [stage |-> "none", src |-> <<>>, once |-> <<>>, twice |-> <<>>]

\* The assembler repairs the concatenated body.
Repair ==
    /\ md.stage = "in"
    /\ md' = [md EXCEPT !.stage = "once", !.once = fixMarkdownTables(md.src)]
    /\ UNCHANGED <<pollVars, launchVars, sessVars, reportVars, tex, traceeVars, appendVars>>

\* The repaired body is repaired again.
RepairAgain ==
    /\ md.stage = "once"
    /\ md' = [md EXCEPT !.stage = "twice", !.twice = fixMarkdownTables(md.once)]
    /\ UNCHANGED <<pollVars, launchVars, sessVars, reportVars, tex, traceeVars, appendVars>>

NextRepair ==
    \/ Repair
    \/ RepairAgain

----------------------------------------------------------------------------
(* The assembler's LaTeX passes: fixLongtable and wrapStyledSections.  The  *)
(* body is a sequence of tokens; a token is a piece of text the regular     *)
(* expressions of the passes match as a whole.                              *)

MaxBlocks == 3

LTCAP == "{\\def\\LTcaptype{none} % do not increment counter"

BEGINLT == "\\begin{longtable}[]{@{}"

CLOSESPEC == "@{}}"

RAGGEDRIGHT == ">{\\raggedright"

CENTERING == ">{\\centering"

RAGGEDLEFT == ">{\\raggedleft"

COLWIDTH == "\\arraybackslash}p{(\\linewidth - 2\\tabcolsep) * \\real{0.5000}}"

TOPRULE == "\\toprule\\noalign{}"

ENDLT == "\\end{longtable}"

MINIBEGIN == "\\begin{minipage}[b]{\\linewidth}\\raggedright"

MINIEND == "\\end{minipage}"

ENDDOC == "\\end{document}"

\* Tokens that end with "}}".
EndsBraces(tok) == tok \in {CLOSESPEC, COLWIDTH}

IsBlank(tok) == tok \in {NL, SP, "  "}

\* The least index of a set of indexes, 0 for the empty set.
Least(S) == IF S = {} THEN 0 ELSE CHOOSE i \in S : \A j \in S : i <= j

\* ltcaptypeRe.ReplaceAllString(s, "")
RECURSIVE DropCaptype(_)
DropCaptype(s) ==
    LET i == Least({k \in 1..(Len(s) - 1) : s[k] = LTCAP /\ s[k + 1] = NL})
    IN  IF i = 0 THEN s
        ELSE SubSeq(s, 1, i - 1) \o DropCaptype(SubSeq(s, i + 2, Len(s)))

\* closeBraceRe.ReplaceAllString(s, "$1")
RECURSIVE DropCloseBrace(_)
DropCloseBrace(s) ==
    LET i == Least({k \in 1..(Len(s) - 2) : s[k] = ENDLT /\ s[k + 1] = NL /\ s[k + 2] = "}"})
    IN  IF i = 0 THEN s
        ELSE SubSeq(s, 1, i + 1) \o DropCloseBrace(SubSeq(s, i + 3, Len(s)))

\* The last token before index k that is not white space (0 when none).
LastSolid(s, k) ==
    LET S == {j \in 1..(k - 1) : ~IsBlank(s[j])}
    IN  IF S = {} THEN 0 ELSE CHOOSE j \in S : \A m \in S : m <= j

\* colSpecRe from the directive at index i: the index of the \toprule that
\* ends the shortest match, 0 when there is none.
SpecEnd(s, i) ==
    Least({k \in (i + 1)..Len(s) :
              s[k] = TOPRULE /\ LastSolid(s, k) > i /\ EndsBraces(s[LastSolid(s, k)])})

CountTok(s, toks) == Len(SelectSeq(s, LAMBDA t : t \in toks))

IndexTok(s, tok, i) == Least({k \in i..Len(s) : s[k] = tok})

\* colDescRe.FindStringSubmatch(match): the text between "[]{@{}" and the
\* first "@{}}" on the same line, <<>> when there is no match.
colDesc(match) ==
    LET c == IndexTok(match, CLOSESPEC, 2)
    IN  IF c = 0 \/ IndexTok(SubSeq(match, 2, c - 1), NL, 1) # 0 THEN <<>>
        ELSE SubSeq(match, 2, c - 1)

\* The column count fixLongtable works out for one directive.
ncolsOf(match) ==
    LET byRagged == CountTok(match, {RAGGEDRIGHT})
        byLetters == IF byRagged = 0 THEN CountTok(colDesc(match), {"l", "r", "c"})
                     ELSE byRagged
    IN  IF byLetters = 0 THEN 4 ELSE byLetters

\* One p{...} column.
Col(width) == <<"p{">> \o width \o <<"}">>

\* fmt.Sprintf("%.2f", 0.88/ncols)
EvenWidth(n) ==
    LET h == (2 * 88 + n) \div (2 * n)
    IN  <<"0.">> \o (IF h < 10 THEN <<"0">> ELSE <<>>) \o Itoa(h) \o <<"\\linewidth">>

RECURSIVE EvenCols(_, _)
EvenCols(n, k) == IF k = 0 THEN <<>> ELSE Col(EvenWidth(n)) \o EvenCols(n, k - 1)

\* The switch on ncols.
colSpec(n) ==
    <<"@{}">>
    \o (CASE n = 2 -> Col(<<"0.38", "\\linewidth">>) \o Col(<<"0.52", "\\linewidth">>)
          [] n = 3 -> Col(<<"0.22", "\\linewidth">>) \o Col(<<"0.28", "\\linewidth">>)
                      \o Col(<<"0.40", "\\linewidth">>)
          [] n = 4 -> Col(<<"1.5cm">>) \o Col(<<"2.2cm">>) \o Col(<<"3.8cm">>)
                      \o Col(<<"0.35", "\\linewidth">>)
          [] OTHER -> EvenCols(n, n))
    \o <<"@{}">>

NEWBEGIN == "\\begin{longtable}{"

\* colSpecRe.ReplaceAllStringFunc(s, ...)
RECURSIVE ReplaceSpecs(_)
ReplaceSpecs(s) ==
    LET i == Least({k \in 1..Len(s) : s[k] = BEGINLT /\ SpecEnd(s, k) # 0})
        e == SpecEnd(s, i)
    IN  IF i = 0 THEN s
        ELSE SubSeq(s, 1, i - 1) \o <<NEWBEGIN>> \o colSpec(ncolsOf(SubSeq(s, i, e)))
             \o <<"}", NL, "\\toprule", NL, "\\noalign{}">>
             \o ReplaceSpecs(SubSeq(s, e + 1, Len(s)))

\* The end of the minipage that opens at index i: the index of its
\* \end{minipage}, 0 when the text at i is not a one-line minipage.
MinipageEnd(s, i) ==
    LET j == IndexTok(s, NL, i + 2)
    IN  IF /\ s[i] = MINIBEGIN /\ i + 1 <= Len(s) /\ s[i + 1] = NL /\ j > i + 2
           /\ j + 1 <= Len(s) /\ s[j + 1] = MINIEND
        THEN j + 1 ELSE 0

\* minipageRe.ReplaceAllString(s, "$1")
RECURSIVE DropMinipages(_)
DropMinipages(s) ==
    LET i == Least({k \in 1..Len(s) : MinipageEnd(s, k) # 0})
        e == MinipageEnd(s, i)
    IN  IF i = 0 THEN s
        ELSE SubSeq(s, 1, i - 1) \o SubSeq(s, i + 2, e - 2)
             \o DropMinipages(SubSeq(s, e + 1, Len(s)))

fixLongtable(latex) == DropMinipages(ReplaceSpecs(DropCloseBrace(DropCaptype(latex))))

RootCauseHeads == {"\\section{Root Cause}", "\\subsection{Root Cause}"}

FixHeads ==
    {"\\section{Fix}", "\\subsection{Fix}", "\\section{Fix Applied}", "\\subsection{Fix Applied}"}

OtherHeads == {"\\subsection{Hypothesis}", "\\section{Debug Report}"}

\* Tokens that start with \section{ or \subsection{.
SectionHeads == RootCauseHeads \cup FixHeads \cup OtherHeads

HeadsOf(boxName) == IF boxName = "rootcausebox" THEN RootCauseHeads ELSE FixHeads

BoxBegin(boxName) == IF boxName = "rootcausebox" THEN "\\begin{rootcausebox}" ELSE "\\begin{fixbox}"

BoxEnd(boxName) == IF boxName = "rootcausebox" THEN "\\end{rootcausebox}" ELSE "\\end{fixbox}"

\* A search that knows the Root Cause headings only.
FindHead_RootOnly(s, boxName) ==
    IF boxName # "rootcausebox" THEN 0
    ELSE Least({k \in 1..Len(s) : s[k] \in RootCauseHeads /\ IndexTok(s, NL, k) # 0})

\* re.FindStringIndex(s): the first heading of the box that is followed by a
\* newline on its line, 0 when there is none.
FindHead(s, boxName) ==
    Least({k \in 1..Len(s) : s[k] \in HeadsOf(boxName) /\ IndexTok(s, NL, k) # 0})

\* nextSecRe.FindStringIndex(s[searchFrom:]): a newline directly followed by
\* a heading, at index searchFrom or later; 0 when there is none.
FindNextSec(s, i) ==
    Least({k \in i..(Len(s) - 1) : s[k] = NL /\ s[k + 1] \in SectionHeads})

\* One turn of the loop of wrap: the heading at start is replaced and the
\* closing is inserted.
WrapOne(s, boxName, start) ==
    LET lineEnd == IndexTok(s, NL, start)
        replaced == SubSeq(s, 1, start - 1) \o <<BoxBegin(boxName), NL>>
                    \o SubSeq(s, lineEnd + 1, Len(s))
        searchFrom == start + 2
        nextSec == FindNextSec(replaced, searchFrom)
        docEnd == IndexTok(replaced, ENDDOC, searchFrom)
        insertPos == IF nextSec # 0 THEN nextSec
                     ELSE IF docEnd # 0 THEN docEnd
                     ELSE Len(replaced) + 1
    IN  SubSeq(replaced, 1, insertPos - 1) \o <<NL, BoxEnd(boxName), NL>>
        \o SubSeq(replaced, insertPos, Len(replaced))

\* wrap(re, boxName)
RECURSIVE wrap(_, _)
wrap(s, boxName) ==
    IF FindHead(s, boxName) = 0 THEN s
    ELSE wrap(WrapOne(s, boxName, FindHead(s, boxName)), boxName)

wrapStyledSections(latex) == wrap(wrap(latex, "rootcausebox"), "fixbox")

\* What the transform emits for a table: columns with their alignment, in
\* the short form (letters) or the long one (one line per column).
SimpleSpec(aligns) == <<BEGINLT>> \o aligns \o <<CLOSESPEC, NL, TOPRULE, NL>>

AlignCmd(a) == CASE a = "l" -> RAGGEDRIGHT [] a = "c" -> CENTERING [] OTHER -> RAGGEDLEFT

RECURSIVE WideCols(_)
WideCols(aligns) ==
    IF aligns = <<>> THEN <<>>
    ELSE <<NL, "  ", AlignCmd(Head(aligns)), COLWIDTH>> \o WideCols(Tail(aligns))

WideSpec(aligns) == <<BEGINLT>> \o WideCols(aligns) \o <<CLOSESPEC, NL, TOPRULE, NL>>

TableText(t) ==
    <<LTCAP, NL>>
    \o (IF t.wide THEN WideSpec(t.aligns) \o <<MINIBEGIN, NL, "A", NL, MINIEND, " & ..", NL>>
        ELSE SimpleSpec(t.aligns) \o <<"A & ..", NL>>)
    \o <<"\\midrule\\noalign{}", NL, "\\endhead", NL, "1 & ..", NL, ENDLT, NL, "}">>

Tables ==
    { [wide |-> FALSE, aligns |-> <<"l", "l">>],
      [wide |-> FALSE, aligns |-> <<"l", "c", "r">>],
      [wide |-> TRUE, aligns |-> <<"l", "l", "l", "l">>],
      [wide |-> TRUE, aligns |-> <<"l", "l", "l", "l", "l">>],
      [wide |-> TRUE, aligns |-> <<"l", "c">>] }

\* The blocks of a body: headings, paragraphs, tables.
Blocks ==
    { [kind |-> "head", text |-> <<h, "\\label{x}">>]
        : h \in {"\\subsection{Root Cause}", "\\subsection{Fix Applied}",
                 "\\subsection{Hypothesis}"} }
    \cup { [kind |-> "para", text |-> <<"guard uses len-1">>] }
    \cup { [kind |-> "table", text |-> TableText(t), cols |-> Len(t.aligns)] : t \in Tables }

\* The transform separates blocks by a blank line and ends with a newline.
RECURSIVE BodyOf(_)
BodyOf(blocks) ==
    IF blocks = <<>> THEN <<>>
    ELSE Head(blocks).text \o <<NL>>
         \o (IF Len(blocks) > 1 THEN <<NL>> ELSE <<>>) \o BodyOf(Tail(blocks))

NoTex == [stage |-> "none", blocks |-> <<>>, src |-> <<>>, tabled |-> <<>>, wrapped |-> <<>>]

\* latexBody = fixLongtable(latexBody)
FixLongtable ==
    /\ tex.stage = "in"
    /\ tex' = [tex EXCEPT !.stage = "tabled", !.tabled = fixLongtable(tex.src)]
    /\ UNCHANGED <<pollVars, launchVars, sessVars, reportVars, md, traceeVars, appendVars>>

\* latexBody = wrapStyledSections(latexBody)
WrapStyledSections ==
    /\ tex.stage = "tabled"
    /\ tex' = [tex EXCEPT !.stage = "wrapped", !.wrapped = wrapStyledSections(tex.tabled)]
    /\ UNCHANGED <<pollVars, launchVars, sessVars, reportVars, md, traceeVars, appendVars>>

NextTex ==
    \/ FixLongtable
    \/ WrapStyledSections

----------------------------------------------------------------------------
(* report-build: the fragments of a directory are assembled, handed to the  *)
(* transform, post-processed, embedded in the template and compiled.        *)

texFile == "debug_report.tex"

pdfFile == "debug_report.pdf"

\* strings.HasPrefix(name, ".")
IsDotName(name) == name \in {".notes.md", ".dlv"}

\* strings.HasSuffix(strings.ToLower(name), ".md")
IsMdName(name) ==
    name \in Fragments \cup {"99_checklist.md", "frag_evidence.md", ".notes.md"}

\* strings.HasPrefix(name, "frag_")
IsFragName(name) == name \in {"frag_evidence.md"}

\* The names used here, in the byte order of sort.Strings.
NameOrder ==
    <<".notes.md", reportMainFile, reportTraceFile, reportEvidFile, reportConcFile,
      "99_checklist.md", pdfFile, texFile, "debug_report_preamble.tex",
      "debug_report_template_md.tex", "frag_evidence.md", "minted.lua", "styles.tex">>

SortStrings_Descending(names) ==
    LET asc == SelectSeq(NameOrder, LAMBDA n : n \in names)
    IN  [i \in 1..Len(asc) |-> asc[Len(asc) + 1 - i]]

\* sort.Strings
SortStrings(names) == SelectSeq(NameOrder, LAMBDA n : n \in names)

\* os.ReadDir entries that are not directories.
RegularNames(fs, d) ==
    {q[Len(q)] : q \in {r \in DOMAIN fs : Len(r) = Len(d) + 1 /\ SubSeq(r, 1, Len(d)) = d}}

\* The loop over the entries of MDToTex: the names that are assembled.
mdFiles_AnyMd(fs, d) == {n \in RegularNames(fs, d) : IsMdName(n)}

mdFiles(fs, d) ==
    {n \in RegularNames(fs, d) :
        ~IsDotName(n) /\ IsMdName(n) /\ ~IsFragName(n) /\ n # "99_checklist.md"}

\* The concatenation loop: "\n\n" between the files.
RECURSIVE mdBody(_, _, _)
mdBody(fs, d, names) ==
    IF names = <<>> THEN <<>>
    ELSE fs[d \o <<Head(names)>>]
         \o (IF Len(names) > 1 THEN <<NL, NL>> ELSE <<>>) \o mdBody(fs, d, Tail(names))

\* templates/tex/debug_report_template_md.tex
Template ==
    <<"\\title{", "<package>", " -- ", "<YYYY-MM-DD>", "}", NL, "\\begin{document}", NL,
      "%%MD_BODY%%", NL, ENDDOC, NL>>

\* strings.ReplaceAll(s, old, new) for a one-token old.
ReplaceAll(s, old, new) ==
    LET at == SelectSeq([i \in 1..Len(s) |-> IF s[i] = old THEN i ELSE 0], LAMBDA i : i # 0)
        piece(k) == (IF k = 1 THEN SubSeq(s, 1, at[1] - 1)
                     ELSE SubSeq(s, at[k - 1] + 1, at[k] - 1)) \o new
        RECURSIVE glue(_)
        glue(k) == IF k = 0 THEN <<>> ELSE glue(k - 1) \o piece(k)
    IN  IF at = <<>> THEN s
        ELSE glue(Len(at)) \o SubSeq(s, at[Len(at)] + 1, Len(s))

\* strings.Replace(s, old, new, 1)
ReplaceFirst(s, old, new) ==
    LET i == IndexTok(s, old, 1)
    IN  IF i = 0 THEN s ELSE SubSeq(s, 1, i - 1) \o new \o SubSeq(s, i + 1, Len(s))

\* The outcomes of the external programs: each is missing, fails or works;
\* a working transform returns one of these bodies.
PandocBodies ==
    { BodyOf(<<[kind |-> "head", text |-> <<"\\subsection{Root Cause}", "\\label{x}">>],
               [kind |-> "para", text |-> <<"guard uses len-1">>]>>),
      <<"see ", "<package>", NL>> }

Envs ==
    { [pandoc |-> "missing", body |-> <<>>, pdflatex |-> "ok"],
      [pandoc |-> "fails", body |-> <<>>, pdflatex |-> "ok"] }
    \cup { [pandoc |-> "ok", body |-> b, pdflatex |-> c]
             : b \in PandocBodies, c \in {"missing", "fails", "ok"} }

\* MDToTex: [err, tex, count, md, body]; md is the body handed to the
\* transform, body the LaTeX body put in place of the placeholder.
MDToTex(fs, d, dname, pkg, date, env) ==
    LET names == SortStrings(mdFiles(fs, d))
        mdStr == fixMarkdownTables(mdBody(fs, d, names))
        failed(e) == [err |-> e, tex |-> <<>>, count |-> 0, md |-> <<>>, body |-> <<>>]
        latexBody == wrapStyledSections(fixLongtable(env.body))
        embedded == ReplaceFirst(Template, "%%MD_BODY%%", latexBody)
        withPkg == IF pkg # <<>> THEN ReplaceAll(embedded, "<package>", pkg) ELSE embedded
        withDate == IF date # <<>> THEN ReplaceAll(withPkg, "<YYYY-MM-DD>", date)
                    ELSE withPkg
    IN  IF ~DirExists(fs, d) THEN failed(<<"read dir">> \o dname)
        ELSE IF names = <<>> THEN failed(<<"no .md files found in">> \o dname)
        ELSE IF env.pandoc = "missing" THEN failed(<<"pandoc is required">>)
        ELSE IF env.pandoc = "fails" THEN failed(<<"pandoc failed">>)
        ELSE IF IndexTok(Template, "%%MD_BODY%%", 1) = 0 THEN failed(<<"template missing">>)
        ELSE [err |-> nil, tex |-> withDate, count |-> Len(names), md |-> mdStr,
              body |-> latexBody]

\* ensureReportTemplates
ensureReportTemplates(fs, d) ==
    WriteFile(WriteFile(fs, d \o <<"debug_report_preamble.tex">>, <<"template">>),
              d \o <<"styles.tex">>, <<"template">>)

\* What pdflatex, run in the directory, leaves there: the PDF of the .tex
\* when it works, nothing new when it fails.
pdflatex(fs, d, env) ==
    IF env.pdflatex = "ok" THEN WriteFile(fs, d \o <<pdfFile>>, <<"pdf of">> \o fs[d \o <<texFile>>])
    ELSE fs

\* TexToPDF: the two runs, their results dropped, then os.Stat.
TexToPDF(fs, d, env) ==
    LET ensured == ensureReportTemplates(fs, d)
        ran == pdflatex(pdflatex(ensured, d, env), d, env)
    IN  IF env.pdflatex = "missing" THEN [err |-> <<"pdflatex is required">>, fs |-> ensured]
        ELSE IF d \o <<pdfFile>> \notin DOMAIN ran
        THEN [err |-> <<"pdflatex did not produce">>, fs |-> ran]
        ELSE [err |-> nil, fs |-> ran]

\* CopyPDF
CopyPDF(fs, cwd, d, dest) ==
    IF d \o <<pdfFile>> \notin DOMAIN fs THEN [err |-> <<"read">>, fs |-> fs]
    ELSE [err |-> nil, fs |-> WriteFile(fs, Resolve(cwd, dest), fs[d \o <<pdfFile>>])]

\* dirStamp: the timestamp in the base name of the directory, if any.
dirStamp(dir) ==
    IF dir.segs # <<>> /\ dir.segs[Len(dir.segs)] = ".debug_2026-02-27T09-08-40"
    THEN <<"2026-02-27T09-08-40">> ELSE <<>>

\* "./debug_report_" + stamp + ".pdf"
StampedPdf(stamp) ==
    Rel(<<IF stamp = <<"2026-02-27T09-08-40">> THEN "debug_report_2026-02-27T09-08-40.pdf"
          ELSE IF stamp = <<"2026-02-27">> THEN "debug_report_2026-02-27.pdf"
          ELSE "debug_report_.pdf">>)

BuildOutcome(ret, fs, printed, built) ==
    [ret |-> ret, fs |-> fs, printed |-> printed, built |-> built]

\* cmdReportBuild
cmdReportBuild(fs, cwd, rest, in, env) ==
    IF Len(rest) # 1 THEN BuildOutcome(Usage("report-build"), fs, <<>>, NoBuilt)
    ELSE LET dbgDir == rest[1]
             d == Resolve(cwd, dbgDir)
             outPath == IF in.outPath = EmptyPath /\ in.pdf
                        THEN IF dirStamp(dbgDir) # <<>> THEN StampedPdf(dirStamp(dbgDir))
                             ELSE IF in.date # <<>> THEN StampedPdf(in.date)
                             ELSE EmptyPath
                        ELSE in.outPath
             t == MDToTex(fs, d, dbgDir.segs, in.pkg, in.date, env)
             written == WriteFile(fs, d \o <<texFile>>, t.tex)
             wrote == <<(<<"wrote">> \o Itoa(t.count))>>
             p == TexToPDF(written, d, env)
             c == CopyPDF(p.fs, cwd, d, outPath)
             built == [md |-> t.md, body |-> t.body, compiled |-> env.pdflatex = "ok",
                       copied |-> <<>>]
         IN  IF t.err # nil THEN BuildOutcome(t.err, fs, <<>>, NoBuilt)
             ELSE IF ~in.pdf
             THEN BuildOutcome(nil, written, wrote, [built EXCEPT !.compiled = FALSE])
             ELSE IF p.err # nil THEN BuildOutcome(p.err, p.fs, wrote, built)
             ELSE IF outPath = EmptyPath
             THEN BuildOutcome(nil, p.fs, wrote \o <<(<<"compiled">>)>>, built)
             ELSE IF c.err # nil
             THEN BuildOutcome(c.err, c.fs, wrote \o <<(<<"compiled">>)>>, built)
             ELSE BuildOutcome(nil, c.fs, wrote \o <<(<<"compiled">>), (<<"copied">>)>>,
                               [built EXCEPT !.copied = c.fs[Resolve(cwd, outPath)]])

BuildInputs ==
    { [pkg |-> <<>>, date |-> <<>>, pdf |-> FALSE, outPath |-> EmptyPath],
      [pkg |-> <<"example/pipeline">>, date |-> <<"2026-02-27">>, pdf |-> TRUE,
       outPath |-> EmptyPath] }

ReportBuild ==
    \E rest \in RestInputs, in \in BuildInputs, env \in Envs :
        Reported("report-build", cmdReportBuild(files, Proj, rest, in, env), <<>>)

NextBuild ==
    \/ NextReport
    \/ ReportBuild

----------------------------------------------------------------------------
(* The example program: Filter, Window, Aggregate, run line by line under   *)
(* the debugger with the conditional breakpoint of the end-to-end test.     *)

sensors ==
    <<42, 3, 63, 28, 71, 39, 95, 14, 55, 33, 77, 48, 7, 60, 25, 91, 69, 36, 52, 18>>

\* Filter
RECURSIVE Filter(_, _, _)
Filter(data, lo, hi) ==
    IF data = <<>> THEN <<>>
    ELSE (IF Head(data) >= lo /\ Head(data) <= hi THEN <<Head(data)>> ELSE <<>>)
         \o Filter(Tail(data), lo, hi)

\* The threshold of the clamp guard: len(data)-1 in pipeline.go, len(data)
\* once the test has patched it.
Threshold_AlwaysLen(fixed, n) == n

Threshold(fixed, n) == IF fixed THEN n ELSE n - 1

\* start += step
NextStart_Unit(start, step) == start + 1

NextStart(start, step) == start + step

RECURSIVE SumOf(_)
SumOf(w) == IF w = <<>> THEN 0 ELSE Head(w) + SumOf(Tail(w))

RECURSIVE MaxOf(_)
MaxOf(w) ==
    IF Len(w) = 1 THEN w[1]
    ELSE IF Head(w) > MaxOf(Tail(w)) THEN Head(w) ELSE MaxOf(Tail(w))

\* computeStats; Mean is kept in hundredths.
computeStats(w) ==
    IF Len(w) = 0 THEN [Count |-> 0, Sum |-> 0, Mean |-> 0, Max |-> 0]
    ELSE [Count |-> Len(w), Sum |-> SumOf(w), Mean |-> (SumOf(w) * 100) \div Len(w),
          Max |-> MaxOf(w)]

\* Aggregate
Aggregate(windows) == [i \in 1..Len(windows) |-> computeStats(windows[i])]

\* The breakpoint of sessions 2 and 3: pipeline.go:27 if start == 12.
BreakLine == 27

CondStart == 12

DataSets == {Filter(sensors, 10, 85), Filter(SubSeq(sensors, 1, 8), 10, 85)}

Sizes == {4, 3}

Steps == {2, 3}

NoTr ==
    [fixed |-> FALSE, data |-> <<>>, size |-> 0, step |-> 0, line |-> 0, start |-> 0,
     end |-> 0, windows |-> <<>>, stats |-> <<>>, hits |-> <<>>, seen |-> <<>>]

\* line 25: for start := 0; start < len(data); ...
LoopTest ==
    /\ tr.line = 25
    /\ tr' = [tr EXCEPT !.line = IF tr.start < Len(tr.data) THEN 26 ELSE 32]
    /\ UNCHANGED <<pollVars, launchVars, sessVars, reportVars, asmVars, appendVars>>

\* line 26: end := start + size.  The tracee then reaches the breakpoint's
\* line; the engine stops it there when the condition holds.
ComputeEnd ==
    /\ tr.line = 26
    /\ tr' = [tr EXCEPT !.end = tr.start + tr.size,
                        !.line = BreakLine,
                        !.hits = IF tr.start = CondStart THEN Append(@, tr.start) ELSE @,
                        !.seen = Append(@, [start |-> tr.start, before |-> tr.start + tr.size,
                                            after |-> 0])]
    /\ UNCHANGED <<pollVars, launchVars, sessVars, reportVars, asmVars, appendVars>>

\* line 27: if end > len(data)-1 {
Guard ==
    /\ tr.line = 27
    /\ tr' = [tr EXCEPT !.line = IF tr.end > Threshold(tr.fixed, Len(tr.data)) THEN 28
                                 ELSE 30]
    /\ UNCHANGED <<pollVars, launchVars, sessVars, reportVars, asmVars, appendVars>>

\* line 28: end = len(data) - 1
Clamp ==
    /\ tr.line = 28
    /\ tr' = [tr EXCEPT !.end = Threshold(tr.fixed, Len(tr.data)), !.line = 30]
    /\ UNCHANGED <<pollVars, launchVars, sessVars, reportVars, asmVars, appendVars>>

\* line 30: windows = append(windows, data[start:end]); then start += step
AppendWindow ==
    /\ tr.line = 30
    /\ tr' = [tr EXCEPT !.windows = Append(@, SubSeq(tr.data, tr.start + 1, tr.end)),
                        !.seen[Len(tr.seen)].after = tr.end,
                        !.start = NextStart(tr.start, tr.step),
                        !.line = 25]
    /\ UNCHANGED <<pollVars, launchVars, sessVars, reportVars, asmVars, appendVars>>

\* line 32: return windows; main then calls Aggregate.
ReturnWindows ==
    /\ tr.line = 32
    /\ tr' = [tr EXCEPT !.line = 0, !.stats = Aggregate(tr.windows)]
    /\ UNCHANGED <<pollVars, launchVars, sessVars, reportVars, asmVars, appendVars>>

NextWindow ==
    \/ LoopTest
    \/ ComputeEnd
    \/ Guard
    \/ Clamp
    \/ AppendWindow
    \/ ReturnWindows

----------------------------------------------------------------------------
(* Specifications.                                                          *)

\* The launcher's world before any command: the two module directories.
InitFiles == [f \in {Proj \o <<"go.mod">>, Sub \o <<"go.mod">>} |-> <<"module">>]

InitEng == [tracee |-> "stopped", bps |-> {}, nextId |-> 1]

\* cmdStart has spawned an engine and enters its polling loop.
InitPoll ==
    /\ now = 0
    /\ script \in EngineScripts
    /\ out = <<>>
    /\ pc = "loop"
    /\ line = NoLine
    /\ addr = <<>>
    /\ outcome = "none"
    /\ files = InitFiles
    /\ engines = <<>>
    /\ last = Idle
    /\ eng = InitEng
    /\ conns = 0
    /\ ap = NoAp
    /\ inv = NoInv
    /\ rep = NoRep
    /\ md = NoMd
    /\ tex = NoTex
    /\ tr = NoTr

\* No command has run yet.
InitLauncher ==
    /\ now = 0
    /\ script = <<>>
    /\ out = <<>>
    /\ pc = "idle"
    /\ line = NoLine
    /\ addr = <<>>
    /\ outcome = "none"
    /\ files = InitFiles
    /\ engines = <<>>
    /\ last = Idle
    /\ eng = InitEng
    /\ conns = 0
    /\ ap = NoAp
    /\ inv = NoInv
    /\ rep = NoRep
    /\ md = NoMd
    /\ tex = NoTex
    /\ tr = NoTr

\* A session with engine 41, as a successful `start` in proj leaves it.
InitSession ==
    /\ now = 0
    /\ script = <<>>
    /\ out = <<>>
    /\ pc = "idle"
    /\ line = NoLine
    /\ addr = <<>>
    /\ outcome = "none"
    /\ files = WriteFile(WriteFile(InitFiles, Proj \o <<".dlv", "addr">>,
                                   EngineAddr(41) \o <<NL>>),
                         Proj \o <<".dlv", "pid">>, Itoa(41) \o <<NL>>)
    /\ engines = (41 :> startDetached(Command))
    /\ last = [Idle EXCEPT !.cmd = "start", !.addr = EngineAddr(41), !.pid = 41,
                           !.workDir = Proj, !.dir = Proj \o <<".dlv">>]
    /\ eng = InitEng
    /\ conns = 0
    /\ ap = NoAp
    /\ inv = NoInv
    /\ rep = NoRep
    /\ md = NoMd
    /\ tex = NoTex
    /\ tr = NoTr

\* The project with its source file; the artifact directory is either
\* missing or already holds the handle of a session started with DBG_DIR=dbg.
ReportFiles == WriteFile(InitFiles, Proj \o SourceFile.segs, SourceText)

InitReport ==
    /\ now = 0
    /\ script = <<>>
    /\ out = <<>>
    /\ pc = "idle"
    /\ line = NoLine
    /\ addr = <<>>
    /\ outcome = "none"
    /\ files \in {ReportFiles,
                  WriteFile(WriteFile(ReportFiles, Proj \o <<"dbg", ".dlv", "addr">>,
                                      EngineAddr(41) \o <<NL>>),
                            Proj \o <<"dbg", ".dlv", "pid">>, Itoa(41) \o <<NL>>)}
    /\ engines = <<>>
    /\ last = Idle
    /\ eng = InitEng
    /\ conns = 0
    /\ ap = NoAp
    /\ inv = NoInv
    /\ rep = NoRep
    /\ md = NoMd
    /\ tex = NoTex
    /\ tr = NoTr

\* A markdown body as the concatenation of the fragments gives it.
InitRepair ==
    /\ now = 0
    /\ script = <<>>
    /\ out = <<>>
    /\ pc = "idle"
    /\ line = NoLine
    /\ addr = <<>>
    /\ outcome = "none"
    /\ files = InitFiles
    /\ engines = <<>>
    /\ last = Idle
    /\ eng = InitEng
    /\ conns = 0
    /\ ap = NoAp
    /\ inv = NoInv
    /\ rep = NoRep
    /\ md \in {[NoMd EXCEPT !.stage = "in", !.src = JoinNL(b)] : b \in Bodies}
    /\ tex = NoTex
    /\ tr = NoTr

\* A LaTeX body as the transform returns it.
InitTex ==
    /\ now = 0
    /\ script = <<>>
    /\ out = <<>>
    /\ pc = "idle"
    /\ line = NoLine
    /\ addr = <<>>
    /\ outcome = "none"
    /\ files = InitFiles
    /\ engines = <<>>
    /\ last = Idle
    /\ eng = InitEng
    /\ conns = 0
    /\ ap = NoAp
    /\ inv = NoInv
    /\ rep = NoRep
    /\ md = NoMd
    /\ tex \in {[NoTex EXCEPT !.stage = "in", !.blocks = b, !.src = BodyOf(b)]
                  : b \in UNION { [1..n -> Blocks] : n \in 1..MaxBlocks }}
    /\ tr = NoTr

\* Files a user keeps beside the fragments, none of them assembled.
OtherFiles ==
    WriteFile(WriteFile(WriteFile(WriteFile(ReportFiles,
        Proj \o <<"dbg", ".dlv", "addr">>, EngineAddr(41) \o <<NL>>),
        Proj \o <<"dbg", "99_checklist.md">>, <<"- [ ] stack captured", NL>>),
        Proj \o <<"dbg", "frag_evidence.md">>, <<"## <section>", NL>>),
        Proj \o <<"dbg", ".notes.md">>, <<"notes", NL>>)

\* report-build runs among the report commands.
InitBuild ==
    /\ now = 0
    /\ script = <<>>
    /\ out = <<>>
    /\ pc = "idle"
    /\ line = NoLine
    /\ addr = <<>>
    /\ outcome = "none"
    /\ files \in {ReportFiles, OtherFiles}
    /\ engines = <<>>
    /\ last = Idle
    /\ eng = InitEng
    /\ conns = 0
    /\ ap = NoAp
    /\ inv = NoInv
    /\ rep = NoRep
    /\ md = NoMd
    /\ tex = NoTex
    /\ tr = NoTr

\* Window is entered with the data, size and step of the call; the source
\* is pipeline.go as it is or as the test patches it.
InitWindow ==
    /\ now = 0
    /\ script = <<>>
    /\ out = <<>>
    /\ pc = "idle"
    /\ line = NoLine
    /\ addr = <<>>
    /\ outcome = "none"
    /\ files = InitFiles
    /\ engines = <<>>
    /\ last = Idle
    /\ eng = InitEng
    /\ conns = 0
    /\ ap = NoAp
    /\ inv = NoInv
    /\ rep = NoRep
    /\ md = NoMd
    /\ tex = NoTex
    /\ tr \in {[NoTr EXCEPT !.fixed = f, !.data = d, !.size = sz, !.step = st, !.line = 25]
                 : f \in BOOLEAN, d \in DataSets, sz \in Sizes, st \in Steps}

\* The artifact directory after report-init.
AppendFiles == cmdReportInit(ReportFiles, Proj, <<ReportDir>>, [pkg |-> <<>>, date |-> <<>>]).fs

\* No appender has started.
InitAppend ==
    /\ now = 0
    /\ script = <<>>
    /\ out = <<>>
    /\ pc = "idle"
    /\ line = NoLine
    /\ addr = <<>>
    /\ outcome = "none"
    /\ files = AppendFiles
    /\ engines = <<>>
    /\ last = Idle
    /\ eng = InitEng
    /\ conns = 0
    /\ ap = [p \in Procs |-> IdleProc]
    /\ inv = NoInv
    /\ rep = NoRep
    /\ md = NoMd
    /\ tex = NoTex
    /\ tr = NoTr

\* The polling loop of one cmdStart, step by step, against the engine's writes.
SpecPoll == InitPoll /\ [][NextPoll]_vars

\* The launcher is a running process: its steps are taken.
FairPoll == SpecPoll /\ WF_vars(PollOnce) /\ WF_vars(Sleep) /\ WF_vars(LoopExit)

\* Whole invocations of start, stop and the client's address resolution.
SpecLauncher == InitLauncher /\ [][NextLauncher]_vars

\* The engine processes, their sessions and their standard output.
SpecDetach == InitLauncher /\ [][NextDetach]_vars

\* Session commands against a running engine.
SpecSession == InitSession /\ [][NextSession]_vars

\* Report commands, run one after the other.
SpecReport == InitReport /\ [][NextReport]_vars

\* fixMarkdownTables applied to a markdown body, once and twice.
SpecRepair == InitRepair /\ [][NextRepair]_vars

\* fixLongtable, then wrapStyledSections, applied to a LaTeX body.
SpecTex == InitTex /\ [][NextTex]_vars

\* The report commands and report-build, run one after the other.
SpecBuild == InitBuild /\ [][NextBuild]_vars

\* Appenders of several invocations, interleaved.
SpecAppend == InitAppend /\ [][NextAppend]_vars

\* The example program running Window.
SpecWindow == InitWindow /\ [][NextWindow]_vars

----------------------------------------------------------------------------
(* Properties of the polling loop.                                          *)

IsListeningLine(l) == l # NoLine /\ HasPrefix(l, prefix)

\* C2: the polling loop ends in exactly one of three outcomes: success when
\* the first output line is the recognized listening line, "unexpected
\* output" when the first line is non-empty and not the listening line,
\* timeout once the fixed deadline has passed without a line.
C2_ThreeOutcomes ==
    pc = "done" =>
        /\ outcome \in {"ok", "unexpected", "timeout"}
        /\ (outcome = "ok") <=> IsListeningLine(line)
        /\ (outcome = "unexpected") <=>
               (line # NoLine /\ line # <<>> /\ ~IsListeningLine(line))
        /\ (outcome = "timeout") <=>
               (now >= TimeoutMs /\ line \in {NoLine, <<>>})

\* Supporting fact for C2 (checked under FairPoll): cmdStart never blocks
\* forever in the loop.
StartTerminates == <>(pc = "done")

----------------------------------------------------------------------------
(* Properties of the launcher and of the handle store.                      *)

\* The handle directory a command run in directory cwd with DBG_DIR = dbg
\* looks in: .dlv under cwd, or under DBG_DIR when that is set.
HandleDir(dbg, cwd) ==
    IF dbg = EmptyPath THEN cwd \o <<".dlv">>
    ELSE IF dbg.abs THEN dbg.segs \o <<".dlv">>
    ELSE cwd \o dbg.segs \o <<".dlv">>

\* The handle in dir is exactly the one of the engine pid listening at a.
HoldsHandle(dir, a, pid) ==
    /\ (dir \o <<"addr">>) \in DOMAIN files
    /\ (dir \o <<"pid">>) \in DOMAIN files
    /\ files[dir \o <<"addr">>] = a \o <<NL>>
    /\ files[dir \o <<"pid">>] = Itoa(pid) \o <<NL>>

StartSucceeded == last.cmd = "start" /\ last.err = "ok"

\* C1: after start succeeds the engine keeps running once the launcher has
\* exited: it leads a session of its own and its standard output is a
\* regular file, so neither a signal to the launcher's session nor a write to
\* standard output ends it; only stop's SIGTERM does.
C1_EngineOutlivesLauncher ==
    \A p \in DOMAIN engines :
        /\ engines[p].sid = "own"
        /\ engines[p].stdout = "file"
        /\ engines[p].killedBy \in {"none", "SIGTERM"}
        /\ engines[p].alive <=> (engines[p].killedBy = "none")

\* An engine whose handle is on disk is alive after it wrote to its standard
\* output and after a signal went to the session of its launcher.
C1_Witness ==
    \E p \in DOMAIN engines :
        /\ HoldsHandle(Proj \o <<".dlv">>, EngineAddr(p), p)
        /\ engines[p].alive
        /\ engines[p].wrote
        /\ engines[p].hup

\* C3: for every DBG_DIR (unset, relative, absolute) and every target (the
\* current directory, or a module directory start changes into), after a
\* successful start a later command run from the caller's original directory
\* with the same environment resolves exactly the address start persisted.
C3_HandleRoundTrip ==
    StartSucceeded =>
        LET r == getAddr(last.dbg, <<>>, last.cwd, files)
        IN  r.ok /\ r.addr = last.addr

\* C4: when start changes into a target directory that is a module of its
\* own, the handle is written to both the target's handle location and the
\* invoker's original handle location.
C4_BothLocations ==
    (StartSucceeded /\ last.didChdir) =>
        /\ HoldsHandle(HandleDir(last.dbg, last.workDir), last.addr, last.pid)
        /\ HoldsHandle(HandleDir(last.dbg, last.cwd), last.addr, last.pid)

\* C5: getAddr returns a non-empty DLV_ADDR without consulting the handle
\* file; otherwise the trimmed content of the addr file; if that file cannot
\* be read the command fails with a "no session" error naming the path it
\* looked up, and nothing is dialed.
C5_AddrResolution ==
    last.cmd = "client" =>
        LET dir == HandleDir(last.dbg, last.cwd)
            named == IF last.dbg = EmptyPath THEN Rel(<<".dlv", "addr">>)
                     ELSE [abs |-> last.dbg.abs,
                           segs |-> last.dbg.segs \o <<".dlv", "addr">>]
        IN  IF last.dlvAddr # <<>> THEN
                /\ last.err = "ok"
                /\ last.addr = last.dlvAddr
                /\ last.read = <<>>
                /\ last.dialed
            ELSE IF (dir \o <<"addr">>) \in DOMAIN files THEN
                /\ last.err = "ok"
                /\ last.addr = TrimSpace(files[dir \o <<"addr">>])
                /\ last.addr \o <<NL>> = files[dir \o <<"addr">>]
                /\ last.dialed
            ELSE
                /\ last.err = "nosession"
                /\ last.errPath = named
                /\ ~last.dialed

\* The override wins over a handle file that holds another address.
C5_Witness ==
    /\ last.cmd = "client"
    /\ last.dlvAddr = OverrideAddr
    /\ (HandleDir(last.dbg, last.cwd) \o <<"addr">>) \in DOMAIN files
    /\ files[HandleDir(last.dbg, last.cwd) \o <<"addr">>] # OverrideAddr \o <<NL>>
    /\ last.addr = OverrideAddr

\* C6: stop leaves the handle location with neither an addr file nor a pid
\* file, whatever the handle state was before (both, one of the two, none),
\* and returns success when the handle is already absent.
C6_StopClears ==
    last.cmd = "stop" =>
        /\ HandleState(files, HandleDir(last.dbg, last.cwd)) = "none"
        /\ (last.had = "none" => last.err = "ok")

\* C7: after a second successful start in the same location the handle's addr
\* and pid are both those of the second engine (the one just spawned) and
\* nothing of the first handle remains.
C7_SecondStartOverwrites ==
    StartSucceeded =>
        /\ last.pid = EnginePid(Cardinality(DOMAIN engines))
        /\ last.addr = EngineAddr(last.pid)
        /\ HoldsHandle(last.dir, EngineAddr(last.pid), last.pid)

\* A successful start found the complete handle of an earlier engine in its
\* location.
C7_Witness ==
    /\ StartSucceeded
    /\ last.had = "both"
    /\ Cardinality(DOMAIN engines) >= 2
    /\ HoldsHandle(last.dir, last.addr, last.pid)

----------------------------------------------------------------------------
(* Properties of the session client and of the dispatcher.                  *)

Count(seq, x) == Cardinality({i \in 1..Len(seq) : seq[i] = x})

\* The RPCs that carry out the operation of a command.
OpRpcs(cmd) ==
    CASE cmd = "break" -> {"FindLocation", "CreateBreakpoint"}
      [] cmd = "breakpoints" -> {"ListBreakpoints"}
      [] cmd = "clear" -> {"ClearBreakpoint"}
      [] cmd = "continue" -> {"Continue"}
      [] cmd = "next" -> {"Next"}
      [] cmd = "step" -> {"Step"}
      [] cmd = "stepout" -> {"StepOut"}
      [] cmd = "print" -> {"EvalVariable"}
      [] cmd = "locals" -> {"ListLocalVariables"}
      [] cmd = "args" -> {"ListFunctionArgs"}
      [] cmd = "stack" -> {"Stacktrace"}
      [] cmd = "goroutines" -> {"ListGoroutines"}
      [] OTHER -> {}

WasSessionCmd == inv.cmd # "none" /\ Canon(inv.cmd) \in SessionCmds

\* C8: every session command goes resolve address -> open exactly one
\* connection -> one state query -> at most one requested operation (for
\* break: one resolution followed by the creations) -> disconnect, and the
\* disconnect happens on every return path after the connection was opened,
\* so no connection outlives an invocation.
C8_OneConnectionPerInvocation ==
    /\ conns = 0
    /\ WasSessionCmd =>
        LET e == inv.events
            n == Len(e)
        IN  /\ n >= 1
            /\ e[1] = "resolve"
            /\ Count(e, "resolve") = 1
            /\ Count(e, "connect") <= 1
            /\ n > 1 =>
                /\ n >= 4
                /\ e[2] = "connect"
                /\ e[3] = "GetState"
                /\ Count(e, "GetState") = 1
                /\ e[n] = "disconnect"
                /\ Count(e, "disconnect") = 1
                /\ \A i \in 4..(n - 1) : e[i] \in OpRpcs(Canon(inv.cmd))
                /\ Canon(inv.cmd) # "break" => n <= 5
                /\ Canon(inv.cmd) = "break" =>
                       \A i \in 5..(n - 1) : e[i] = "CreateBreakpoint"

\* A command that failed in its operation, after the connection was opened,
\* has disconnected.
C8_Witness ==
    /\ Canon(inv.cmd) = "clear"
    /\ inv.ret # nil
    /\ inv.events = <<"resolve", "connect", "GetState", "ClearBreakpoint", "disconnect">>
    /\ conns = 0

\* C9: if the initial state query fails with the engine's "has exited with
\* status" message, the invocation prints that message, performs no further
\* operation and returns success (exit code 0); if it fails with any other
\* error, the invocation returns that error (non-zero exit) and performs no
\* operation.
C9_StateQueryClassification ==
    (WasSessionCmd /\ inv.stateReply.err # nil) =>
        /\ inv.events = <<"resolve", "connect", "GetState", "disconnect">>
        /\ eng.bps = inv.before
        /\ IF inv.stateReply.err \in ExitErrors
           THEN /\ inv.ret = nil
                /\ inv.code = 0
                /\ inv.printed = <<inv.stateReply.err>>
           ELSE /\ inv.ret = inv.stateReply.err
                /\ inv.code = 1
                /\ inv.printed = <<>>

\* A command that found the tracee exited at its state query returned 0.
C9_Witness ==
    /\ Canon(inv.cmd) = "break"
    /\ inv.stateReply.err \in ExitErrors
    /\ inv.code = 0
    /\ eng.tracee = "exited"

\* C10: continue, next, step and stepout share one exit-vs-error rule: success
\* when the engine replies with a stopped state, with a state marked exited,
\* or with an error matching the exit message; failure, with the engine's
\* error unchanged, for every other error reply.
C10_ResumeExitRule ==
    (WasSessionCmd /\ Canon(inv.cmd) \in ResumeCmds
        /\ \E i \in 1..Len(inv.events) : inv.events[i] \in OpRpcs(Canon(inv.cmd))) =>
        LET r == inv.reply
        IN  IF r.err = nil \/ r.err \in ExitErrors
            THEN inv.ret = nil /\ inv.code = 0
            ELSE inv.ret = r.err /\ inv.code = 1

\* A stepout that was answered with the exit error returned success.
C10_Witness ==
    /\ Canon(inv.cmd) = "stepout"
    /\ inv.reply.err \in ExitErrors
    /\ ~inv.reply.state.exited
    /\ inv.ret = nil
    /\ inv.code = 0

Issued(rpc) == \E i \in 1..Len(inv.events) : inv.events[i] = rpc

BreakResolved == Canon(inv.cmd) = "break" /\ Issued("FindLocation")

\* What the engine resolved the location spec of the last break to.
Found == FindLocation(SplitCond(inv.args).locspec)

\* The addresses among the resolved locations.
ResolvedAddrs ==
    {BreakAddr(Found.locs[i]) : i \in 1..Len(Found.locs)} \ {0}

NumResolved ==
    Cardinality({i \in 1..Len(Found.locs) : BreakAddr(Found.locs[i]) # 0})

\* The breakpoints the last invocation created.
Created == eng.bps \ inv.before

\* The "breakpoint <id>" prefixes of the lines the last invocation printed.
ReportedIds == {SubSeq(inv.printed[i], 1, 2) : i \in 1..Len(inv.printed)}

OnePerAddress ==
    /\ Cardinality(Created) = NumResolved
    /\ {b.addr : b \in Created} = ResolvedAddrs
    /\ Len(inv.printed) = NumResolved
    /\ Cardinality(ReportedIds) = NumResolved
    /\ ReportedIds = {<<"breakpoint">> \o Itoa(b.id) : b \in Created}

C13_SuccessCreatesOne ==
    BreakResolved =>
        /\ (Found.err = nil /\ Len(Found.locs) = 0) => inv.code # 0
        /\ inv.ret = nil => (Cardinality(Created) >= 1 /\ Len(inv.printed) >= 1)

\* The id a clear invocation names is registered in the engine.
ClearNamesRegistered ==
    /\ Len(inv.args) >= 1
    /\ Atoi(inv.args[1]).ok
    /\ \E b \in inv.before : b.id = Atoi(inv.args[1]).val

\* C14: clear <id> with an id that is not registered in the engine fails
\* (non-zero exit) in every engine state in which the command can be invoked,
\* including after the tracee has exited.
C14_ClearUnknownFails ==
    (Canon(inv.cmd) = "clear" /\ Issued("connect") /\ Len(inv.args) >= 1
        /\ ~ClearNamesRegistered) => inv.code # 0

\* The ids of a breakpoints listing, one line per breakpoint.
ListedIds == {inv.printed[i] : i \in 1..Len(inv.printed)}

\* C15: after clear <id> succeeded on a registered id, every later
\* breakpoints listing omits that id until a new breakpoint is created, and
\* lists every breakpoint that is still registered.
C15_ClearedStaysOmitted ==
    /\ (Canon(inv.cmd) = "clear" /\ inv.ret = nil /\ Issued("connect")
          /\ inv.stateReply.err = nil)
        => /\ ClearNamesRegistered
           /\ eng.bps = {b \in inv.before : b.id # Atoi(inv.args[1]).val}
    /\ (Canon(inv.cmd) = "breakpoints" /\ inv.ret = nil /\ Issued("ListBreakpoints"))
        => /\ \A id \in inv.cleared : Itoa(id) \notin ListedIds
           /\ ListedIds = {Itoa(b.id) : b \in eng.bps}
           /\ Len(inv.printed) = Cardinality(eng.bps)

\* A listing after a successful clear, with another breakpoint still there.
C15_Witness ==
    /\ Canon(inv.cmd) = "breakpoints"
    /\ inv.ret = nil
    /\ Issued("ListBreakpoints")
    /\ inv.cleared # {}
    /\ eng.bps # {}

\* The state a summary was printed for: the state query's for state, the
\* resume call's for continue, next, step and stepout.
Summarised ==
    IF Canon(inv.cmd) = "state" THEN inv.stateReply.state ELSE inv.reply.state

PrintedSummary ==
    /\ WasSessionCmd
    /\ inv.stateReply.err = nil
    /\ Issued("connect")
    /\ \/ Canon(inv.cmd) = "state"
       \/ Canon(inv.cmd) \in ResumeCmds /\ inv.reply.err = nil

\* C16: the state summary reports exactly one outcome, chosen by the priority
\* exited > running > a thread parked at a breakpoint (that breakpoint) > a
\* selected goroutine (its location) > "stopped"; the output is never empty
\* and "stopped" is printed exactly when no earlier case applies.
C16_StateSummaryRule ==
    PrintedSummary =>
        LET st == Summarised
        IN  /\ Len(inv.printed) = 1
            /\ inv.printed[1] =
                 (IF st.exited THEN <<"Process", "exited", "with", "status">> \o Itoa(st.status)
                  ELSE IF st.running THEN <<"Process", "is", "running.">>
                  ELSE IF st.threads # <<>>
                       THEN <<"thread", "at", "breakpoint">> \o Itoa(st.threads[1])
                  ELSE IF st.sel # 0 THEN <<"goroutine">> \o Itoa(st.sel)
                  ELSE <<"stopped">>)

----------------------------------------------------------------------------
(* Properties of the report fragment store.                                 *)

FragmentPath(f) == Resolve(Proj, rfile(ReportDir, f))

\* The lines of a fragment of the artifact directory.
LinesOf(f) == SplitLines(ReadFile(files, FragmentPath(f)))

NumLines(f, l) == Cardinality({i \in 1..Len(LinesOf(f)) : LinesOf(f)[i] = l})

RECURSIVE Flatten(_)
Flatten(rows) == IF rows = <<>> THEN <<>> ELSE Head(rows) \o Flatten(Tail(rows))

C18_AppendOnly ==
    [][\A f \in Fragments :
          FragmentPath(f) \in DOMAIN files =>
              /\ FragmentPath(f) \in DOMAIN files'
              /\ HasPrefix(files'[FragmentPath(f)], files[FragmentPath(f)])]_vars

NumTitleLines ==
    Cardinality({i \in 1..Len(LinesOf(reportMainFile)) :
                    HasPrefix(LinesOf(reportMainFile)[i], <<TitlePrefix>>)})

\* C19: after any number of successful report-init invocations on a
\* directory the header fragment contains the title line exactly once.
C19_TitleOnce == rep.inits >= 1 => NumTitleLines = 1

\* report-init was run again on a directory it had initialised.
C19_Witness ==
    /\ rep.cmd = "report-init"
    /\ rep.ret = nil
    /\ rep.inits >= 2
    /\ NumTitleLines = 1

\* The section headers of each fragment.
SectionHeaders(f) ==
    CASE f = reportMainFile -> {"## Hypothesis"}
      [] f = reportTraceFile -> {"## Debugging Trace"}
      [] f = reportEvidFile -> {"## Breakpoints & Evidence"}
      [] f = reportConcFile -> {"## Root Cause", "## Fix Applied", "## Post-fix Verification"}

\* C20: after any sequence of appender invocations, each section header
\* occurs at most once in its fragment.
C20_HeadersOnce ==
    \A f \in Fragments : \A h \in SectionHeaders(f) : NumLines(f, <<h>>) <= 1

----------------------------------------------------------------------------
(* Properties of the example program under the debugger (SpecWindow).       *)

\* The run of the end-to-end test: the 16 filtered readings, size 4, step 2.
Scenario == tr.data = Filter(sensors, 10, 85) /\ tr.size = 4 /\ tr.step = 2

\* The values of start with which the breakpoint's line was reached.
Visited == [i \in 1..Len(tr.seen) |-> tr.seen[i].start]

Min(a, b) == IF a < b THEN a ELSE b

\* C28: with the breakpoint at the clamp guard conditioned on start == 12 and
\* the loop variable sweeping 0, 2, ..., 14, the tracee is stopped exactly
\* once, at start 12, with the buggy guard and with the fixed one.
C28_StopsOnceAtTwelve ==
    Scenario =>
        /\ tr.hits \in {<<>>, <<CondStart>>}
        /\ tr.hits = <<CondStart>> <=> \E i \in 1..Len(tr.seen) : tr.seen[i].start = CondStart
        /\ tr.line = 0 => /\ Visited = <<0, 2, 4, 6, 8, 10, 12, 14>>
                          /\ tr.hits = <<12>>

C28_Witness == Scenario /\ tr.fixed /\ tr.line = 0 /\ tr.hits = <<12>>

\* C29: in that run, at start 12 the buggy guard is entered, end is 16 before
\* it and 15 after, and the run ends with 8 windows of which windows[6] has 3
\* elements; with the fixed guard end is 16 before and after.
C29_EndAtTwelve ==
    Scenario =>
        /\ (tr.start = 12 /\ tr.line = 27) => tr.end = 16
        /\ (tr.start = 12 /\ tr.line = 28) => ~tr.fixed
        /\ (tr.start = 12 /\ tr.line = 30) => tr.end = IF tr.fixed THEN 16 ELSE 15
        /\ tr.line = 0 =>
              /\ tr.seen[7] = [start |-> 12, before |-> 16,
                               after |-> IF tr.fixed THEN 16 ELSE 15]
              /\ ~tr.fixed => Len(tr.windows) = 8 /\ Len(tr.windows[7]) = 3

C29_Witness ==
    Scenario /\ ~tr.fixed /\ tr.line = 0 /\ Len(tr.windows) = 8 /\ tr.seen[7].after = 15

\* C30: Window returns, for each start 0, step, 2*step, ... below len(data),
\* data[start : min(start+size, len(data))]; for the 16 readings windows[6]
\* is [69 36 52 18], windows[7] is [52 18], and Aggregate gives windows[6]
\* count 4, sum 175, max 69.
C30_WindowSlices ==
    tr.line = 0 =>
        /\ \A i \in 1..Len(tr.windows) :
              tr.windows[i] = SubSeq(tr.data, (i - 1) * tr.step + 1,
                                     Min((i - 1) * tr.step + tr.size, Len(tr.data)))
        /\ Scenario =>
              /\ tr.windows[7] = <<69, 36, 52, 18>>
              /\ tr.windows[8] = <<52, 18>>
              /\ tr.stats[7].Count = 4 /\ tr.stats[7].Sum = 175 /\ tr.stats[7].Max = 69

----------------------------------------------------------------------------
(* Properties of the markdown pass (SpecRepair).                            *)

MdIn == SplitLines(md.src)

MdOut == SplitLines(md.once)

\* Cells of a table row: the pipes separate them, the outer ones enclose them.
EndsPipe(ln) == ln # <<>> /\ ln[Len(ln)] \in {"|", " |", "| a | b |", "| 1 | 2 |",
                                             "| --- | --- |", " --- |"}

Columns(ln) == IF EndsPipe(ln) THEN CountPipes(ln) - 1 ELSE CountPipes(ln)

\* Line i is the first row of a table: a table row not preceded by one.
FirstRow(lines, i) == isTableRow(lines[i]) /\ (i = 1 \/ ~isTableRow(lines[i - 1]))

DataRow(ln) == isTableRow(ln) /\ ~isSeparator(ln)

\* The repair the claim describes.
RECURSIVE Repaired(_, _)
Repaired(lines, i) ==
    IF i > Len(lines) THEN <<>>
    ELSE <<lines[i]>>
         \o (IF FirstRow(lines, i) /\ i < Len(lines) /\ DataRow(lines[i + 1])
             THEN <<SepRow(Columns(lines[i]))>> ELSE <<>>)
         \o Repaired(lines, i + 1)

\* C22: in the repaired markup every table of two or more rows has a
\* separator as its second row; a separator with the header's column count
\* is inserted exactly when a table's first row is immediately followed by a
\* data row, everything else is left as it was, and repairing twice equals
\* repairing once.
C22_TableRepair ==
    /\ md.stage \in {"once", "twice"} =>
          /\ \A i \in 1..(Len(MdOut) - 1) :
                FirstRow(MdOut, i) /\ isTableRow(MdOut[i + 1]) => isSeparator(MdOut[i + 1])
          /\ MdOut = Repaired(MdIn, 1)
    /\ md.stage = "twice" => md.twice = md.once

\* The lines inside fenced code blocks, fences excluded.
RECURSIVE Fenced(_, _)
Fenced(lines, inside) ==
    IF lines = <<>> THEN <<>>
    ELSE IF Head(lines) # <<>> /\ Head(lines)[1] = FENCE THEN Fenced(Tail(lines), ~inside)
    ELSE (IF inside THEN <<Head(lines)>> ELSE <<>>) \o Fenced(Tail(lines), inside)

RECURSIVE IsSubseq(_, _)
IsSubseq(a, b) ==
    IF a = <<>> THEN TRUE
    ELSE IF b = <<>> THEN FALSE
    ELSE IF Head(a) = Head(b) THEN IsSubseq(Tail(a), Tail(b))
    ELSE IsSubseq(a, Tail(b))

\* C23: the table-repair pass removes, changes and reorders no input line,
\* and inserts no line inside a fenced code block.
C23_ContentVerbatim ==
    md.stage \in {"once", "twice"} =>
        /\ IsSubseq(MdIn, MdOut)
        /\ Fenced(MdOut, FALSE) = Fenced(MdIn, FALSE)

----------------------------------------------------------------------------
(* Properties of the LaTeX passes (SpecTex).                                *)

\* The column counts of the tables of the body, in order.
TableCols ==
    LET tables == SelectSeq(tex.blocks, LAMBDA b : b.kind = "table")
    IN  [i \in 1..Len(tables) |-> tables[i].cols]

\* The width specification of the rewritten directive at index i: what
\* stands between the directive's opening and the brace that ends its line.
SpecAt(s, i) == SubSeq(s, i + 1, IndexTok(s, NL, i) - 2)

\* C25: every layout directive of the transform is replaced by an explicit
\* width specification with as many columns as its table: the fixed ones
\* for 2, 3 and 4 columns, an even split of that many columns otherwise.
C25_ColumnLayout ==
    tex.stage \in {"tabled", "wrapped"} =>
        LET s == tex.tabled
            at == SelectSeq([i \in 1..Len(s) |-> IF s[i] = NEWBEGIN THEN i ELSE 0],
                            LAMBDA i : i # 0)
        IN  /\ \A i \in 1..Len(s) : s[i] # BEGINLT
            /\ Len(at) = Len(TableCols)
            /\ \A k \in 1..Len(at) :
                  /\ Len(SelectSeq(SpecAt(s, at[k]), LAMBDA t : t = "p{")) = TableCols[k]
                  /\ SpecAt(s, at[k]) = colSpec(TableCols[k])

StyledHeads == RootCauseHeads \cup FixHeads

BoxBegins == {BoxBegin("rootcausebox"), BoxBegin("fixbox")}

BoxEnds == {BoxEnd("rootcausebox"), BoxEnd("fixbox")}

BoxFor(tok) == IF tok \in RootCauseHeads THEN "rootcausebox" ELSE "fixbox"

EndFor(tok) == IF tok = BoxBegin("rootcausebox") THEN BoxEnd("rootcausebox") ELSE BoxEnd("fixbox")

\* The container blocks the headings of a body call for, in order.
BoxesWanted(s) ==
    LET heads == SelectSeq(s, LAMBDA t : t \in StyledHeads)
    IN  [i \in 1..Len(heads) |-> BoxBegin(BoxFor(heads[i]))]

BoxesOpened(s) == SelectSeq(s, LAMBDA t : t \in BoxBegins)

\* Openings, closings and headings, in order of appearance.
Marks(s) == SelectSeq(s, LAMBDA t : t \in BoxBegins \cup BoxEnds \cup SectionHeads)

\* Every opening is directly followed by its closing, with no heading and no
\* other opening in between, and every closing directly follows its opening.
Bracketed(s) ==
    \A k \in 1..Len(Marks(s)) :
        /\ Marks(s)[k] \in BoxBegins =>
              k < Len(Marks(s)) /\ Marks(s)[k + 1] = EndFor(Marks(s)[k])
        /\ Marks(s)[k] \in BoxEnds =>
              k > 1 /\ Marks(s)[k - 1] \in BoxBegins /\ Marks(s)[k] = EndFor(Marks(s)[k - 1])

\* After a closing only newlines come before the next heading, the next
\* opening or the end of the document.
ClosedBeforeNext(s) ==
    \A i \in 1..Len(s) :
        s[i] \in BoxEnds =>
            \A j \in (i + 1)..Len(s) :
                (s[j] # NL /\ \A m \in (i + 1)..(j - 1) : s[m] = NL)
                    => s[j] \in SectionHeads \cup BoxBegins \cup {ENDDOC}

\* C24: every Root Cause and Fix / Fix Applied heading is replaced by the
\* opening of its container block, the closing stands immediately before
\* the next heading or at the end of the document, every opening has exactly
\* one closing, and the blocks neither nest nor overlap.
C24_StyledSections ==
    tex.stage = "wrapped" =>
        /\ \A i \in 1..Len(tex.wrapped) : tex.wrapped[i] \notin StyledHeads
        /\ BoxesOpened(tex.wrapped) = BoxesWanted(tex.tabled)
        /\ Bracketed(tex.wrapped)
        /\ ClosedBeforeNext(tex.wrapped)

----------------------------------------------------------------------------
(* Properties of report-build (SpecBuild).                                  *)

BuildDir == Proj \o ReportDir.segs

Built == rep.cmd = "report-build" /\ rep.ret = nil

\* The fragments that exist, in the order 00, 10, 20, 90, with a blank line
\* between two of them.
RECURSIVE InOrder(_)
InOrder(names) ==
    IF names = <<>> THEN <<>>
    ELSE LET rest == InOrder(Tail(names))
             f == BuildDir \o <<Head(names)>>
         IN  IF f \notin DOMAIN files THEN rest
             ELSE IF rest = <<>> THEN files[f]
             ELSE files[f] \o <<NL, NL>> \o rest

\* C21: what report-build hands to the transform is fixed by the names and
\* contents of the fragments, whatever the order of the appends that wrote
\* them: the eligible fragments in ascending name order, 00, 10, 20, 90, a
\* blank line between two of them, and nothing else of the directory.
C21_AssembledInNameOrder ==
    Built =>
        rep.built.md = InOrder(<<reportMainFile, reportTraceFile, reportEvidFile,
                                 reportConcFile>>)

C21_Witness ==
    /\ Built
    /\ BuildDir \o <<reportTraceFile>> \in DOMAIN files
    /\ BuildDir \o <<reportConcFile>> \in DOMAIN files
    /\ BuildDir \o <<"99_checklist.md">> \in DOMAIN files

Eligible ==
    {n \in RegularNames(files, BuildDir) :
        n \in Fragments}

\* C26: report-build on a directory without eligible fragment fails with an
\* error that names the directory, and writes no debug_report.tex.
C26_NoFragmentsFails ==
    (rep.cmd = "report-build" /\ rep.ret # Usage("report-build") /\ Eligible = {}) =>
        /\ rep.ret \in {<<"no .md files found in">> \o ReportDir.segs,
                        <<"read dir">> \o ReportDir.segs}
        /\ DirExists(files, BuildDir) => rep.ret = <<"no .md files found in">> \o ReportDir.segs
        /\ BuildDir \o <<texFile>> \notin DOMAIN files
        /\ rep.printed = <<>>

C26_Witness ==
    /\ rep.cmd = "report-build"
    /\ rep.ret = <<"no .md files found in">> \o ReportDir.segs
    /\ BuildDir \o <<"frag_evidence.md">> \in DOMAIN files
    /\ BuildDir \o <<texFile>> \notin DOMAIN files

\* C27: report-build -pdf reports the compilation, and copies a PDF, only
\* if the compiler wrote the PDF during this invocation.
C27_CompilerFailureFatal ==
    rep.cmd = "report-build" =>
        /\ (rep.ret = nil /\ <<"compiled">> \in {rep.printed[i] : i \in 1..Len(rep.printed)})
              => rep.built.compiled
        /\ rep.built.copied # <<>> => rep.built.compiled

-----------------------------------------------------------------------------
(* The engine's writes interleaved with the launcher's polls.               *)

\* Everything the engine writes in this run: what is already in the file
\* followed by what it has still to write.
Announced == out \o script

\* The address the engine announces when the first line of its whole output
\* is the listening line (<<>> when it is not).
AnnouncedAddr ==
    LET l == ScanFirstLine(Announced)
    IN IF IsListeningLine(l)
       THEN TrimSpace(SubSeq(l, Len(prefix) + 1, Len(l)))
       ELSE <<>>

\* C31: when the engine's first output line is the listening line, start
\* never reports unexpected output and never harvests anything but the
\* complete announced address, however the engine's writes (a line may be
\* written in several pieces) interleave with the polls; the start may only
\* fail by timeout, when the deadline has passed.
C31_CompleteAddress ==
    (pc = "done" /\ AnnouncedAddr # <<>>) =>
        /\ outcome \in {"ok", "timeout"}
        /\ outcome = "ok" => addr = AnnouncedAddr
        /\ outcome = "timeout" => now >= TimeoutMs

-----------------------------------------------------------------------------
(* A failed start and the handle store.                                     *)

StartFailures == {"flags", "nodlv", "spawn", "unexpected", "timeout"}

\* C32: a start that fails (mutually exclusive flags, engine binary not
\* found, spawn failure, unexpected engine output, timeout) leaves every
\* file as it was: no addr or pid file is created, modified or removed.
C32_FailedStartKeepsStore ==
    [][(last'.cmd = "start" /\ last'.err # "ok")
          => /\ last'.err \in StartFailures
             /\ files' = files]_vars

\* A start failed on unexpected engine output or by timeout in a directory
\* that holds the handle of an earlier engine.
C32_Witness ==
    /\ last.cmd = "start"
    /\ last.err \in {"unexpected", "timeout"}
    /\ HandleState(files, HandleDir(last.dbg, last.cwd)) = "both"
    /\ Cardinality(DOMAIN engines) = 2

-----------------------------------------------------------------------------
(* A failed break and its condition.                                        *)

\* C33: break is retryable: when a break invocation fails (resolution
\* error, zero locations, or an error while creating one of several
\* breakpoints) the engine's breakpoint set is the one it had before the
\* invocation, so no breakpoint created by the failed invocation remains.
C33_FailedBreakKeepsSet ==
    (Canon(inv.cmd) = "break" /\ inv.ret # nil) => eng.bps = inv.before

\* The joined argument string of the last invocation.
Joined == JoinArgs(inv.args)

IfWord == <<SP, "if", SP>>

\* The positions at which " if " occurs in the joined string.
IfAt == {i \in 1..Len(Joined) : i + 2 <= Len(Joined) /\ SubSeq(Joined, i, i + 2) = IfWord}

\* The location and the condition the caller wrote: the text before the
\* first " if " and the text after it, the whole string when there is none.
WantLoc ==
    IF IfAt = {} THEN Joined ELSE TrimSpace(SubSeq(Joined, 1, Least(IfAt) - 1))

WantCond ==
    IF IfAt = {} THEN <<>> ELSE TrimSpace(SubSeq(Joined, Least(IfAt) + 3, Len(Joined)))

\* C34: the joined argument string of break is cut at its first " if ": the
\* part before it (trimmed) is the only text sent to location resolution and
\* never contains the condition clause, the part after it (trimmed) is the
\* condition of every breakpoint the invocation creates; without " if " the
\* whole string is the location and the condition is empty.
C34_ConditionSplit ==
    BreakResolved =>
        /\ ~Contains(WantLoc, IfWord)
        /\ FindLocation(WantLoc).err # nil => inv.ret = FindLocation(WantLoc).err
        /\ (FindLocation(WantLoc).err = nil /\ FindLocation(WantLoc).locs = <<>>)
              => inv.ret = <<"no", "location", "found", "for">> \o WantLoc
        /\ (FindLocation(WantLoc).err = nil
               /\ \E i \in 1..Len(FindLocation(WantLoc).locs) :
                      BreakAddr(FindLocation(WantLoc).locs[i]) # 0)
              => Issued("CreateBreakpoint")
        /\ {b.addr : b \in Created}
              \subseteq {BreakAddr(FindLocation(WantLoc).locs[i]) :
                            i \in 1..Len(FindLocation(WantLoc).locs)}
        /\ \A b \in Created : b.cond = WantCond
        /\ \A i \in 1..Len(inv.printed) :
              Contains(inv.printed[i], <<"if">> \o WantCond) <=> WantCond # <<>>

\* A break whose condition itself holds " if " created a breakpoint at the
\* location written before the first " if ", with all the rest as condition.
C34_Witness ==
    /\ BreakResolved
    /\ inv.ret = nil
    /\ Cardinality(IfAt) = 2
    /\ \E b \in Created : b.line = 27 /\ b.cond = <<"a", SP, "if", SP, "b">>

-----------------------------------------------------------------------------
(* The placeholders of the template and the embedded body.                  *)

\* The debug_report.tex of the directory.
TexOut == files[BuildDir \o <<texFile>>]

\* C35: placeholder substitution affects only the template: the LaTeX body
\* is inserted unchanged, so a body that contains the literal text of a
\* placeholder is found as it was in the debug_report.tex that is written.
C35_BodyUnchanged ==
    Built => Contains(TexOut, rep.built.body)

-----------------------------------------------------------------------------
(* The source context of report-evidence.                                   *)

\* The last report command ended in a run-time panic.
Faulted == rep.ret # nil /\ rep.ret[1] = "panic:"

\* C36: for every highlight line >= 1, every ctx >= 0 and every source file,
\* a highlight line beyond the end of the file included, the slice bounds of
\* readSourceContext satisfy 0 <= first <= last <= number of lines, so that
\* report-evidence never faults.
C36_ContextInBounds == rep.cmd = "report-evidence" => ~Faulted

-----------------------------------------------------------------------------
(* The frame of the report appenders.                                       *)

Appenders ==
    {"report-hypothesis", "report-trace-row", "report-evidence", "report-root-cause",
     "report-fix", "report-verification"}

\* The fragment each appender writes.
FragmentOf(cmd) ==
    CASE cmd = "report-hypothesis" -> reportMainFile
      [] cmd = "report-trace-row" -> reportTraceFile
      [] cmd = "report-evidence" -> reportEvidFile
      [] OTHER -> reportConcFile

\* The file of that fragment in the artifact directory.
OwnFragment(cmd) == BuildDir \o <<FragmentOf(cmd)>>

\* C37: each report-append command changes exactly one file, its own fragment
\* (hypothesis: 00; trace-row: 10; evidence: 20; root-cause, fix and
\* verification: 90), and leaves every other fragment, the session handle
\* files and the engine untouched; it returns without looking for a session,
\* so it never fails for want of one.
C37_AppenderFrame ==
    [][(rep'.cmd \in Appenders /\ rep'.count = rep.count + 1)
          => /\ \A q \in (DOMAIN files \cup DOMAIN files') \ {OwnFragment(rep'.cmd)} :
                    q \in DOMAIN files /\ q \in DOMAIN files' /\ files'[q] = files[q]
             /\ rep'.ret = nil
                   => /\ OwnFragment(rep'.cmd) \in DOMAIN files'
                      /\ files'[OwnFragment(rep'.cmd)]
                            # ReadFile(files, OwnFragment(rep'.cmd))
             /\ rep'.ret # nil => files' = files
             /\ rep'.ret # <<"no", "DLV_ADDR">>
             /\ <<engines, eng, conns, last, inv>>' = <<engines, eng, conns, last, inv>>]_vars

\* report-fix appended to the conclusion fragment next to other fragments,
\* with no handle file and no engine.
C37_Witness ==
    /\ rep.cmd = "report-fix"
    /\ rep.ret = nil
    /\ OwnFragment("report-fix") \in DOMAIN files
    /\ OwnFragment("report-trace-row") \in DOMAIN files
    /\ HandleState(files, Proj \o <<".dlv">>) = "none"
    /\ engines = <<>>

-----------------------------------------------------------------------------
(* Appenders run at the same time.                                          *)

\* The invocations that have appended to the file at path.
Writers(path) == {p \in Procs : ap[p].pc = "done" /\ ap[p].ret = nil /\ ap[p].path = path}

\* The ways of putting the invocations of W in a row.
Orders(W) ==
    {s \in [1..Cardinality(W) -> W] : \A i, j \in 1..Cardinality(W) : i # j => s[i] # s[j]}

\* The texts of the invocations of s, one after the other.
RECURSIVE Texts(_)
Texts(s) == IF s = <<>> THEN <<>> ELSE ap[Head(s)].text \o Texts(Tail(s))

\* C38: each appender hands its whole text to a single append-mode write,
\* so when several invocations append to the same fragment at the same time
\* no text is lost or split: the fragment is what it was before, followed by
\* the text of every invocation that has written, each in one piece, in some
\* order.
C38_ContributionsWhole ==
    \A f \in Fragments :
        \E s \in Orders(Writers(BuildDir \o <<f>>)) :
            ReadFile(files, BuildDir \o <<f>>)
                = ReadFile(AppendFiles, BuildDir \o <<f>>) \o Texts(s)

\* Two report-trace-row invocations both found the trace fragment without
\* its header, and both have appended.
C38_Witness ==
    /\ \A p \in {1, 2} :
          /\ ap[p].pc = "done"
          /\ ap[p].ret = nil
          /\ ap[p].path = BuildDir \o <<reportTraceFile>>
          /\ HasPrefix(ap[p].text, TraceHeader)
    /\ ap[1].text # ap[2].text

-----------------------------------------------------------------------------
(* The loop of wrap.                                                        *)

BoxNames == {"rootcausebox", "fixbox"}

\* The number of headings of the box in a text.
HeadCount(s, boxName) == Cardinality({k \in 1..Len(s) : s[k] \in HeadsOf(boxName)})

\* The text after n turns of the loop of wrap, or after its last turn when
\* the loop ends before.
RECURSIVE Turns(_, _, _)
Turns(s, boxName, n) ==
    IF n = 0 \/ FindHead(s, boxName) = 0 THEN s
    ELSE Turns(WrapOne(s, boxName, FindHead(s, boxName)), boxName, n - 1)

\* The text each of the two loops starts from.
LoopInput(boxName) ==
    IF boxName = "rootcausebox" THEN tex.tabled
    ELSE Turns(tex.tabled, "rootcausebox", HeadCount(tex.tabled, "rootcausebox"))

\* C39: the loop of wrap terminates: each turn removes one matching heading
\* and introduces none, so the loop ends after as many turns as the text has
\* matching headings, and on return no Root Cause and no Fix / Fix Applied
\* heading remains in the text.
C39_WrapTerminates ==
    tex.stage = "wrapped" =>
        /\ \A boxName \in BoxNames : \A n \in 0..HeadCount(LoopInput(boxName), boxName) :
              LET t == Turns(LoopInput(boxName), boxName, n)
                  found == FindHead(t, boxName)
              IN  /\ HeadCount(t, boxName) = HeadCount(LoopInput(boxName), boxName) - n
                  /\ found = 0 <=> n = HeadCount(LoopInput(boxName), boxName)
                  /\ found # 0 =>
                        \A other \in BoxNames :
                            HeadCount(WrapOne(t, boxName, found), other)
                                = HeadCount(t, other) - (IF other = boxName THEN 1 ELSE 0)
        /\ tex.wrapped = Turns(LoopInput("fixbox"), "fixbox", HeadCount(tex.tabled, "fixbox"))
        /\ \A k \in 1..Len(tex.wrapped) : tex.wrapped[k] \notin StyledHeads

\* Both loops ran, the second one for two turns, the last heading being the
\* last block of the body.
C39_Witness ==
    /\ tex.stage = "wrapped"
    /\ HeadCount(tex.src, "rootcausebox") = 1
    /\ HeadCount(tex.src, "fixbox") = 2
    /\ tex.blocks[Len(tex.blocks)].kind = "head"
    /\ Cardinality({k \in 1..Len(tex.wrapped) : tex.wrapped[k] = BoxEnd("fixbox")}) = 2

====
